---- MODULE Spec2Model ----
(***************************************************************************)
(* A model of db-migrator: the SQL generators of utils/sql_generator.py,   *)
(* the execution of the scripts they write, the extraction pipeline of     *)
(* utils/extraction.py and the run page of pages/5_run.py.                 *)
(*                                                                         *)
(* Column values are strings.  NULL stands for Python's None / pandas NaN  *)
(* and for SQL NULL.                                                       *)
(***************************************************************************)
EXTENDS Integers, Sequences, FiniteSets, TLC

VARIABLES
    genInput,     \* the dataframe handed to one generate_*_migration_sql call
    genOutput,    \* what that call wrote and returned, NONE before the call
    dataset,      \* the extracted dataframes whose scripts are executed
    scripts,      \* the statements of the script written for each of them
    target,       \* the target database
    pass,         \* how far the executions have followed ScriptOrder, twice over
    inOrder,      \* whether every execution so far has followed it
    onceTarget,   \* the target as the first pass in order left it
    extIn,        \* the arguments of run_full_extraction and what the source answers
    extPc,        \* the stage run_full_extraction is about to run
    extQueries,   \* the queries sent to the source so far, in order
    extResults,   \* its results dictionary
    runOptions,   \* the options of the run page and whether a target is configured
    session,      \* st.session_state: the extracted and the transformed data it keeps
    runPc,        \* the step run_full_migration is at, then the report's
    runResults,   \* its results dictionary
    runStages,    \* the stages it has executed, in order
    report,       \* what generate_migration_report returned, or that it raised
    loadIn,       \* the arguments of load_all and the rows of a transformed file
    loadAt,       \* the position in LOAD_ORDER of the table load_all is at
    loadPhase,    \* where load_all is: between tables, in a table's inserts, ...
    loadPending,  \* the result load_table is building for the table at hand
    loadResults,  \* load_all's results dictionary
    loadLog,      \* what was done to the target, in order
    valResults,   \* the validator's self.results
    valReturn,    \* what run_all_validations returned, or that it raised
    auditAt,      \* the section and the check run_full_audit is at
    auditCalls,   \* the checks run_full_audit has called, and which raised
    auditResults, \* run_full_audit's results: the keys stored for each section
    riskSource,   \* a source database and the emails an extraction is run for
    riskAudit,    \* the audit's count of documents without valid user
    riskTarget,   \* the target after the extraction's scripts were executed
    embIn,        \* the source embeddings table and the arguments of its extraction
    embOut,       \* the rows the embeddings step returned and its queries
    findIn,       \* a directory's files and the table a caller looks up
    findOut       \* what _find_latest_file returned, NONE before the call

genVars == <<genInput, genOutput>>
execVars == <<dataset, scripts, target, pass, inOrder, onceTarget>>
extVars == <<extIn, extPc, extQueries, extResults>>
runVars == <<runOptions, session, runPc, runResults, runStages, report>>
loadVars == <<loadIn, loadAt, loadPhase, loadPending, loadResults, loadLog>>
valVars == <<valResults, valReturn>>
auditVars == <<auditAt, auditCalls, auditResults>>
riskVars == <<riskSource, riskAudit, riskTarget>>
embVars == <<embIn, embOut>>
findVars == <<findIn, findOut>>
vars == <<genVars, execVars, extVars, runVars, loadVars, valVars, auditVars, riskVars, embVars, findVars>>

NULL == "<null>"
NONE == [kind |-> "none"]

\* ---------------------------------------------------------------- bounds
MaxRows == 2          \* rows of a users or an embeddings dataframe
MaxFolders == 3       \* rows of a folders dataframe
MaxLogs == 2          \* rows of a logs dataframe
MaxText == 4          \* pieces of a legacy document field

\* ---------------------------------------------------------------- helpers
RECURSIVE SeqsUpTo(_, _)
SeqsUpTo(S, n) ==
    IF n = 0 THEN {<<>>}
    ELSE LET shorter == SeqsUpTo(S, n - 1)
         IN  shorter \cup {Append(s, x) : s \in {t \in shorter : Len(t) = n - 1}, x \in S}

Range(s) == {s[i] : i \in 1..Len(s)}

\* ------------------------------------------------- sql_generator.py: cells
\* str(val).strip() on the strings of the model: the padded and the blank
\* ones change, every other string is already trimmed.
Strip(s) ==
    CASE s = " "          -> ""
      [] s = " a@x.com "  -> "a@x.com"
      [] OTHER            -> s

\* clean_string: None for None/NaN and for a string that is empty once trimmed.
clean_string_NoStrip(val) ==
    IF val = NULL THEN NULL ELSE IF val = "" THEN NULL ELSE val

clean_string(val) ==
    IF val = NULL THEN NULL
    ELSE IF Strip(val) = "" THEN NULL ELSE Strip(val)

\* What an f-string writes for a value: None is written as the word None.
PyFormat(val) == IF val = NULL THEN "None" ELSE val

\* ------------------------------------------------- sql_generator.py: users
\* The DO block of one user: its guard reads email and the formatted legacy
\* id, its INSERT writes email and metadata.legacyData.id.  NONE when the
\* row has no email.
generate_user_insert(row) ==
    LET old_id == clean_string(row.id)
        email  == clean_string(row.email)
    IN  IF email = NULL THEN NONE
        ELSE [kind |-> "user", email |-> email, legacy_id |-> old_id,
              guard_id |-> PyFormat(old_id), src |-> row]

RECURSIVE UsersLoop(_, _, _)
UsersLoop(rows, i, acc) ==
    IF i > Len(rows) THEN acc
    ELSE LET sql == generate_user_insert(rows[i])
         IN  IF sql # NONE
             THEN UsersLoop(rows, i + 1,
                     [acc EXCEPT !.stmts = Append(@, sql), !.processed = @ + 1])
             ELSE UsersLoop(rows, i + 1, [acc EXCEPT !.skipped = @ + 1])

generate_users_migration_sql(users_df) ==
    UsersLoop(users_df, 1,
        [kind |-> "users", raised |-> FALSE, stmts |-> <<>>, processed |-> 0, skipped |-> 0])

\* ------------------------------------------------- sql_generator.py: folders
\* uuid_generate_v5(namespace, name) under the one fixed namespace: a value
\* determined by the name, different for different names.
NULLID == <<>>
uuid_generate_v5(name) == <<"v5", name>>

\* The order pandas sorts the id strings of the model in; NaN sorts last.
StrRank(s) ==
    CASE s = ""   -> 0
      [] s = "f1" -> 1
      [] s = "f2" -> 2
      [] s = "f3" -> 3
      [] s = "f4" -> 4
      [] s \in {"c1", "d1", "k1", "u1"} -> 1
      [] s \in {"c2", "d2", "k2", "u2"} -> 2
      [] s \in {"c3", "d3", "k3", "u3"} -> 3
      [] OTHER    -> 9

\* parent_id_sort = parent_id.fillna('')
parent_id_sort(row) == IF row.parent_id = NULL THEN "" ELSE row.parent_id

\* Sort keys are tuples of ranks, compared left to right.
RECURSIVE KeyLess(_, _)
KeyLess(a, b) ==
    /\ a # <<>>
    /\ \/ a[1] < b[1]
       \/ a[1] = b[1] /\ KeyLess(Tail(a), Tail(b))

\* DataFrame.sort_values is stable for several keys: a row goes behind every
\* row whose key is not greater.
RECURSIVE InsertSorted(_, _, _)
InsertSorted(sorted, i, keys) ==
    IF sorted = <<>> THEN <<i>>
    ELSE LET last == sorted[Len(sorted)]
         IN  IF KeyLess(keys[i], keys[last])
             THEN Append(InsertSorted(SubSeq(sorted, 1, Len(sorted) - 1), i, keys), last)
             ELSE Append(sorted, i)

RECURSIVE SortedIndex(_, _)
SortedIndex(n, keys) ==
    IF n = 0 THEN <<>> ELSE InsertSorted(SortedIndex(n - 1, keys), n, keys)

sort_values(rows, keys) ==
    LET perm == SortedIndex(Len(rows), keys)
    IN  [i \in 1..Len(rows) |-> rows[perm[i]]]

\* sort_values(['parent_id_sort', 'id'])
folders_sorted(folders_df) ==
    sort_values(folders_df,
        [i \in 1..Len(folders_df) |->
            <<StrRank(parent_id_sort(folders_df[i])), StrRank(folders_df[i].id)>>])

\* The DO block of one folder: looks the owner up by legacy id, skips when
\* there is none, inserts unless a folder of that id exists.  NONE when the
\* row has no id.
generate_folder_insert(row) ==
    LET old_id    == clean_string(row.id)
        parent_id == clean_string(row.parent_id)
        owner_id  == clean_string(row.owner_id)
    IN  IF old_id = NULL THEN NONE
        ELSE [kind |-> "folder",
              id |-> uuid_generate_v5(old_id),
              parent_id |-> IF parent_id # NULL THEN uuid_generate_v5(parent_id) ELSE NULLID,
              owner_lookup |-> PyFormat(owner_id),
              src |-> row]

RECURSIVE FoldersLoop(_, _, _)
FoldersLoop(rows, i, acc) ==
    IF i > Len(rows) THEN acc
    ELSE LET sql == generate_folder_insert(rows[i])
         IN  IF sql # NONE
             THEN FoldersLoop(rows, i + 1,
                     [acc EXCEPT !.stmts = Append(@, sql), !.processed = @ + 1])
             ELSE FoldersLoop(rows, i + 1, [acc EXCEPT !.skipped = @ + 1])

generate_folders_migration_sql(folders_df) ==
    FoldersLoop(folders_sorted(folders_df), 1,
        [kind |-> "folders", raised |-> FALSE, stmts |-> <<>>, processed |-> 0, skipped |-> 0])

\* ------------------------------------------------- sql_generator.py: documents
\* The DO block of one document: owner lookup, skip when there is none, insert
\* unless a document of that legacy doc_id exists.  NONE when the row has no
\* doc_id.
generate_document_insert(row) ==
    LET doc_id    == clean_string(row.doc_id)
        owner_id  == clean_string(row.owner_id)
        folder_id == clean_string(row.folder_id)
    IN  IF doc_id = NULL THEN NONE
        ELSE [kind |-> "document", legacy_doc_id |-> doc_id,
              owner_lookup |-> PyFormat(owner_id),
              folder_id |-> IF folder_id # NULL THEN uuid_generate_v5(folder_id) ELSE NULLID,
              src |-> row]

RECURSIVE DocumentsLoop(_, _, _)
DocumentsLoop(rows, i, acc) ==
    IF i > Len(rows) THEN acc
    ELSE LET sql == generate_document_insert(rows[i])
         IN  IF sql # NONE
             THEN DocumentsLoop(rows, i + 1,
                     [acc EXCEPT !.stmts = Append(@, sql), !.processed = @ + 1])
             ELSE DocumentsLoop(rows, i + 1, [acc EXCEPT !.skipped = @ + 1])

generate_documents_migration_sql(documents_df) ==
    DocumentsLoop(documents_df, 1,
        [kind |-> "documents", raised |-> FALSE, stmts |-> <<>>, processed |-> 0, skipped |-> 0])

\* ------------------------------------------------- sql_generator.py: the document field
\* A legacy document field is a sequence of pieces: the two markers, blanks
\* and other text.  str.index, and 0 where Python's "in" is false.
index(text, marker) ==
    IF \E i \in 1..Len(text) : text[i] = marker
    THEN CHOOSE i \in 1..Len(text) : text[i] = marker /\ \A j \in 1..(i - 1) : text[j] # marker
    ELSE 0

\* str.strip()
strip(text) ==
    LET kept == {i \in 1..Len(text) : text[i] # " "}
    IN  IF kept = {} THEN <<>>
        ELSE SubSeq(text, CHOOSE i \in kept : \A j \in kept : i <= j,
                          CHOOSE i \in kept : \A j \in kept : j <= i)

\* The (original_content, translated_content) pair; translated_content is
\* <<>> for None and <<t>> for the text t.
extract_content_from_document(document_text) ==
    IF document_text = <<>> THEN [original |-> <<>>, translated |-> <<>>]
    ELSE LET original_at == index(document_text, "original_content:")
             translated_at == index(document_text, "translated_content:")
             rest == SubSeq(document_text, original_at + 1, Len(document_text))
             parts_1 == IF index(rest, "original_content:") = 0 THEN rest
                        ELSE SubSeq(rest, 1, index(rest, "original_content:") - 1)
         IN  [original |->
                 IF original_at # 0 THEN strip(parts_1) ELSE document_text,
              translated |->
                 IF translated_at # 0 /\ original_at # 0
                 THEN <<strip(SubSeq(document_text, translated_at + 1, original_at - 1))>>
                 ELSE <<>>]

\* ------------------------------------------------- sql_generator.py: chunks
\* metadata.get('doc_id') of the parsed metadata
doc_id_from_metadata(row) == row.metadata.doc_id

\* groupby('doc_id_from_metadata').cumcount() on the sorted frame.  It drops
\* the rows whose key is null: pandas 1.5 and later give them NaN (NULL here),
\* earlier versions count them as one more group.  <<n>> is the count n, <<>>
\* is NaN.
cumcount(sorted, i, na_is_nan) ==
    IF doc_id_from_metadata(sorted[i]) = NULL /\ na_is_nan THEN <<>>
    ELSE <<Cardinality({j \in 1..(i - 1) :
              doc_id_from_metadata(sorted[j]) = doc_id_from_metadata(sorted[i])})>>

\* sort_values(['doc_id_from_metadata', 'id'])
jeen_dev_sorted(jeen_dev_df) ==
    sort_values(jeen_dev_df,
        [i \in 1..Len(jeen_dev_df) |->
            <<StrRank(doc_id_from_metadata(jeen_dev_df[i])), StrRank(jeen_dev_df[i].id)>>])

\* The statements of one source row: the chunk's DO block and, when the row
\* has a vector, the embedding's.  <<>> when the row is skipped.
generate_chunk_and_embedding_inserts(row, chunk_index, skip_empty_embeddings) ==
    LET legacy_id == clean_string(row.id)
        doc_id    == row.metadata.doc_id
        meta_type == row.metadata.type
        chunk_sql ==
            [kind |-> "chunk", id |-> uuid_generate_v5(legacy_id),
             doc_lookup |-> PyFormat(doc_id), chunk_index |-> chunk_index, src |-> row]
        embedding_sql ==
            [kind |-> "embedding", chunk_id |-> uuid_generate_v5(legacy_id),
             doc_lookup |-> PyFormat(doc_id), src |-> row]
    IN  IF legacy_id = NULL \/ meta_type # "chunk-data" THEN <<>>
        ELSE IF doc_id = NULL \/ doc_id = "" THEN <<>>
        ELSE IF skip_empty_embeddings /\ row.embeddings = NULL THEN <<>>
        ELSE IF row.embeddings # NULL THEN <<chunk_sql, embedding_sql>>
        ELSE <<chunk_sql>>

\* The loop over the sorted rows.  int(row['chunk_index']) raises on NaN: the
\* call ends there, with what it had written and without footer or stats.
RECURSIVE ChunksLoop(_, _, _, _, _)
ChunksLoop(sorted, i, na_is_nan, skip_empty_embeddings, acc) ==
    IF i > Len(sorted) THEN acc
    ELSE LET chunk_index == cumcount(sorted, i, na_is_nan)
         IN  IF chunk_index = <<>> THEN [acc EXCEPT !.raised = TRUE]
             ELSE LET sql == generate_chunk_and_embedding_inserts(
                                 sorted[i], chunk_index[1], skip_empty_embeddings)
                  IN  IF sql # <<>>
                      THEN ChunksLoop(sorted, i + 1, na_is_nan, skip_empty_embeddings,
                              [acc EXCEPT !.stmts = @ \o sql,
                                          !.chunks_processed = @ + 1,
                                          !.embeddings_processed =
                                              IF Len(sql) = 2 THEN @ + 1 ELSE @])
                      ELSE ChunksLoop(sorted, i + 1, na_is_nan, skip_empty_embeddings,
                              [acc EXCEPT !.skipped = @ + 1])

generate_chunks_embeddings_migration_sql(jeen_dev_df, skip_empty_embeddings, na_is_nan) ==
    ChunksLoop(jeen_dev_sorted(jeen_dev_df), 1, na_is_nan, skip_empty_embeddings,
        [kind |-> "chunks", raised |-> FALSE, stmts |-> <<>>,
         chunks_processed |-> 0, embeddings_processed |-> 0, skipped |-> 0])

\* ------------------------------------------------- sql_generator.py: the question column
\* The question cell of a log row: NaN, or a JSON array of up to two entries,
\* held as text (form "str", as a CSV gives it) or as a Python list (form
\* "list", as the database driver gives a jsonb value).  An entry is an object
\* with or without the key 'value'.
QuestionEntries == [value : {NULL, "", "hi", "it's"}] \cup {[role |-> "user"]}
QuestionCells ==
    {[form |-> "nan"], [form |-> "str", text |-> "not json"]}
    \cup {[form |-> f, items |-> i] : f \in {"str", "list"}, i \in SeqsUpTo(QuestionEntries, 2)}

\* extract_question_from_jsonb.  The text form goes through
\* replace("'", '"') and json.loads, which fails on a value holding an
\* apostrophe; pd.isna of a list of two entries is an array whose truth value
\* raises, before the try.
extract_question_from_jsonb(question_data) ==
    LET none == [raised |-> FALSE, text |-> "[no question text]"]
        from_json(items) ==
            IF Len(items) > 1 /\ "value" \in DOMAIN items[2]
            THEN [raised |-> FALSE, text |-> items[2].value]
            ELSE none
    IN  CASE question_data.form = "nan" -> none
          [] question_data.form = "str" /\ "items" \notin DOMAIN question_data -> none
          [] question_data.form = "str" /\ "items" \in DOMAIN question_data ->
                IF \E i \in 1..Len(question_data.items) :
                      "value" \in DOMAIN question_data.items[i] /\ question_data.items[i].value = "it's"
                THEN none
                ELSE from_json(question_data.items)
          [] question_data.form = "list" ->
                IF question_data.items = <<>> THEN none
                ELSE IF Len(question_data.items) > 1 THEN [raised |-> TRUE]
                ELSE from_json(question_data.items)

\* ------------------------------------------------- sql_generator.py: logs
\* A numeric cell is <<n>>, or NAN when the column is null in that row.
NAN == <<>>
NumRank(cell) == IF cell = NAN THEN 9 ELSE cell[1]

\* The text of a parent_message_id cell.  The assistant's is the expression of
\* the user message's id; the user's is NULL or the text of the previous
\* assistant's expression put between quotes, which is no expression of an id.
SqlNull == [form |-> "null"]
SqlExpr(id) == [form |-> "expr", id |-> id]
SqlQuoted(id) == [form |-> "quoted", text |-> id]

user_msg_id(legacy_id) == uuid_generate_v5(<<legacy_id, "-user">>)
assistant_msg_id(legacy_id) == uuid_generate_v5(<<legacy_id, "-assistant">>)

\* f"'{prev_assistant_msg_id}'" if prev_assistant_msg_id else 'NULL'
user_parent(prev_assistant_msg_id) ==
    IF prev_assistant_msg_id # NULLID THEN SqlQuoted(prev_assistant_msg_id) ELSE SqlNull

\* logs_df[user_id.notna() & chat_id.notna()]
logs_filtered(logs_df) ==
    SelectSeq(logs_df, LAMBDA r : r.user_id # NULL /\ r.chat_id # NULL)

\* The keys of a groupby, in the ascending order it yields its groups in.
RECURSIVE GroupKeys(_)
GroupKeys(keys) ==
    IF keys = {} THEN <<>>
    ELSE LET k == CHOOSE x \in keys : \A y \in keys : StrRank(x) <= StrRank(y)
         IN  <<k>> \o GroupKeys(keys \ {k})

\* chat_logs.sort_values(by=['message_index', 'question_number', 'created_at'],
\* na_position='last'); the rows of the model share one created_at.
chat_logs_sorted(chat_logs) ==
    sort_values(chat_logs,
        [i \in 1..Len(chat_logs) |->
            <<NumRank(chat_logs[i].message_index), NumRank(chat_logs[i].question_number)>>])

\* The conversations of one user, one per chat_id.
conversations_of(user_id, user_logs) ==
    LET chats == GroupKeys({r.chat_id : r \in Range(user_logs)})
    IN  [c \in 1..Len(chats) |->
            LET logs == chat_logs_sorted(SelectSeq(user_logs, LAMBDA r : r.chat_id = chats[c]))
            IN  [chat_id |-> chats[c], user_id |-> user_id,
                 message_count |-> Len(logs) * 2, logs |-> logs]]

\* The two message rows and the two content-block rows of the turns of one
\* conversation, from turn i on.
RECURSIVE TurnValues(_, _, _, _)
TurnValues(conv, i, prev_assistant_msg_id, acc) ==
    IF i > Len(conv.logs) THEN acc
    ELSE LET legacy_id == clean_string(conv.logs[i].id)
             user_msg ==
                 [id |-> user_msg_id(legacy_id), conversation_id |-> conv.chat_id,
                  parent_message_id |-> user_parent(prev_assistant_msg_id),
                  role |-> "user", user_lookup |-> conv.user_id]
             assistant_msg ==
                 [id |-> assistant_msg_id(legacy_id), conversation_id |-> conv.chat_id,
                  parent_message_id |-> SqlExpr(user_msg_id(legacy_id)),
                  role |-> "assistant", user_lookup |-> conv.user_id]
             user_block ==
                 [id |-> uuid_generate_v5(<<legacy_id, "-user-block-0">>),
                  message_id |-> user_msg_id(legacy_id), sequence |-> 0]
             assistant_block ==
                 [id |-> uuid_generate_v5(<<legacy_id, "-assistant-block-0">>),
                  message_id |-> assistant_msg_id(legacy_id), sequence |-> 0]
         IN  TurnValues(conv, i + 1, assistant_msg_id(legacy_id),
                 [msg_values |-> acc.msg_values \o <<user_msg, assistant_msg>>,
                  block_values |-> acc.block_values \o <<user_block, assistant_block>>])

RECURSIVE BatchValues(_, _, _)
BatchValues(conv_batch, c, acc) ==
    IF c > Len(conv_batch) THEN acc
    ELSE BatchValues(conv_batch, c + 1, TurnValues(conv_batch[c], 1, NULLID, acc))

\* The three INSERT ... SELECT statements of one batch of conversations.
batch_statements(conv_batch) ==
    LET values == BatchValues(conv_batch, 1, [msg_values |-> <<>>, block_values |-> <<>>])
        conv_values ==
            [c \in 1..Len(conv_batch) |->
                [id |-> conv_batch[c].chat_id, message_count |-> conv_batch[c].message_count,
                 user_lookup |-> conv_batch[c].user_id]]
    IN  <<[kind |-> "conversations", values |-> conv_values]>>
        \o (IF values.msg_values # <<>>
            THEN <<[kind |-> "messages", values |-> values.msg_values]>> ELSE <<>>)
        \o (IF values.block_values # <<>>
            THEN <<[kind |-> "blocks", values |-> values.block_values]>> ELSE <<>>)

\* conversations[i:i+max_records_per_insert] for i in range(0, len, max)
RECURSIVE Batches(_, _)
Batches(conversations, max_records_per_insert) ==
    IF conversations = <<>> THEN <<>>
    ELSE IF Len(conversations) <= max_records_per_insert THEN <<conversations>>
    ELSE <<SubSeq(conversations, 1, max_records_per_insert)>>
         \o Batches(SubSeq(conversations, max_records_per_insert + 1, Len(conversations)),
                    max_records_per_insert)

RECURSIVE UserBatchesLoop(_, _, _)
UserBatchesLoop(batches, b, acc) ==
    IF b > Len(batches) THEN acc
    ELSE LET stmts == batch_statements(batches[b])
             turns == Len(BatchValues(batches[b], 1,
                             [msg_values |-> <<>>, block_values |-> <<>>]).msg_values)
         IN  UserBatchesLoop(batches, b + 1,
                 [acc EXCEPT !.stmts = @ \o stmts,
                             !.conversations_processed = @ + Len(batches[b]),
                             !.messages_processed = @ + turns,
                             !.blocks_processed = @ + turns])

RECURSIVE LogsUsersLoop(_, _, _, _, _)
LogsUsersLoop(logs, users, u, max_records_per_insert, acc) ==
    IF u > Len(users) THEN acc
    ELSE LET user_logs == SelectSeq(logs, LAMBDA r : r.user_id = users[u])
             conversations == conversations_of(users[u], user_logs)
         IN  LogsUsersLoop(logs, users, u + 1, max_records_per_insert,
                 UserBatchesLoop(Batches(conversations, max_records_per_insert), 1,
                     [acc EXCEPT !.users_processed = @ + 1]))

max_records_per_insert == 50

generate_conversations_logs_migration_sql(logs_df) ==
    LET logs == logs_filtered(logs_df)
        zero == [kind |-> "logs", raised |-> FALSE, stmts |-> <<>>, users_processed |-> 0,
                 conversations_processed |-> 0, messages_processed |-> 0,
                 blocks_processed |-> 0]
    IN  IF Len(logs) = 0 THEN zero
        ELSE LogsUsersLoop(logs, GroupKeys({r.user_id : r \in Range(logs)}), 1,
                           max_records_per_insert, zero)

\* ------------------------------------------------- the generated SQL, executed
\* The target database: its tables as the sequences of their rows, the NOTICEs
\* raised so far, and the number of gen_random_uuid() values drawn.
EmptyTarget ==
    [users |-> <<>>, folders |-> <<>>, documents |-> <<>>, chunks |-> <<>>,
     embeddings |-> <<>>, conversations |-> <<>>, messages |-> <<>>, blocks |-> <<>>,
     notices |-> {}, uuids |-> 0]

gen_random_uuid(t) == <<"v4", t.uuids + 1>>

\* SELECT id INTO v_user_id FROM users WHERE metadata->'legacyData'->>'id' = ...
\* NULLID when no row matches.
select_user_id(t, legacy_id) ==
    LET hits == {i \in 1..Len(t.users) :
                    t.users[i].legacy_id # NULL /\ t.users[i].legacy_id = legacy_id}
    IN  IF hits = {} THEN NULLID
        ELSE t.users[CHOOSE i \in hits : \A j \in hits : i <= j].id

\* SELECT id INTO v_document_id FROM documents
\* WHERE metadata->'legacyData'->>'doc_id' = ...
select_document_id(t, doc_id) ==
    LET hits == {i \in 1..Len(t.documents) : t.documents[i].legacy_doc_id = doc_id}
    IN  IF hits = {} THEN NULLID
        ELSE t.documents[CHOOSE i \in hits : \A j \in hits : i <= j].id


\* The user's block without its IF NOT EXISTS.
exec_user_insert_NoGuard(t, sql) ==
    [t EXCEPT !.users = Append(@, [id |-> gen_random_uuid(t), email |-> sql.email,
                                   legacy_id |-> sql.legacy_id]),
              !.uuids = @ + 1]

\* The user's DO block.
exec_user_insert(t, sql) ==
    IF ~(\E u \in Range(t.users) :
            \/ u.email = sql.email
            \/ u.legacy_id # NULL /\ u.legacy_id = sql.guard_id)
    THEN [t EXCEPT !.users = Append(@, [id |-> gen_random_uuid(t), email |-> sql.email,
                                        legacy_id |-> sql.legacy_id]),
                   !.uuids = @ + 1]
    ELSE t

\* The folder's block without its IF v_user_id IS NULL ... RETURN.
exec_folder_insert_NoSkip(t, sql) ==
    IF ~(\E f \in Range(t.folders) : f.id = sql.id)
    THEN [t EXCEPT !.folders = Append(@, [id |-> sql.id, parent_id |-> sql.parent_id,
                                          user_id |-> select_user_id(t, sql.owner_lookup)])]
    ELSE t

\* The folder's DO block.
exec_folder_insert(t, sql) ==
    LET v_user_id == select_user_id(t, sql.owner_lookup)
    IN  IF v_user_id = NULLID
        THEN [t EXCEPT !.notices = @ \cup {<<"folder", sql.src.id>>}]
        ELSE IF ~(\E f \in Range(t.folders) : f.id = sql.id)
        THEN [t EXCEPT !.folders = Append(@, [id |-> sql.id, parent_id |-> sql.parent_id,
                                              user_id |-> v_user_id])]
        ELSE t

\* The document's DO block.
exec_document_insert(t, sql) ==
    LET v_user_id == select_user_id(t, sql.owner_lookup)
    IN  IF v_user_id = NULLID
        THEN [t EXCEPT !.notices = @ \cup {<<"document", sql.src.doc_id>>}]
        ELSE IF ~(\E d \in Range(t.documents) : d.legacy_doc_id = sql.legacy_doc_id)
        THEN [t EXCEPT !.documents = Append(@, [id |-> gen_random_uuid(t),
                                                legacy_doc_id |-> sql.legacy_doc_id,
                                                folder_id |-> sql.folder_id,
                                                user_id |-> v_user_id]),
                       !.uuids = @ + 1]
        ELSE t

\* The chunk's DO block.
exec_chunk_insert(t, sql) ==
    LET v_document_id == select_document_id(t, sql.doc_lookup)
    IN  IF v_document_id = NULLID
        THEN [t EXCEPT !.notices = @ \cup {<<"chunk", sql.src.id>>}]
        ELSE IF ~(\E c \in Range(t.chunks) : c.id = sql.id)
        THEN [t EXCEPT !.chunks = Append(@, [id |-> sql.id, document_id |-> v_document_id,
                                             chunk_index |-> sql.chunk_index])]
        ELSE t

\* The embedding's DO block.
exec_embedding_insert(t, sql) ==
    LET v_document_id == select_document_id(t, sql.doc_lookup)
    IN  IF v_document_id = NULLID THEN t
        ELSE IF ~(\E e \in Range(t.embeddings) : e.chunk_id = sql.chunk_id)
        THEN [t EXCEPT !.embeddings = Append(@, [id |-> gen_random_uuid(t),
                                                 chunk_id |-> sql.chunk_id,
                                                 document_id |-> v_document_id]),
                       !.uuids = @ + 1]
        ELSE t

\* INSERT INTO conversations ... SELECT * FROM (VALUES ...) v
\* WHERE v.user_id IS NOT NULL AND NOT EXISTS (... id = v.id): the rows are
\* tested against the table as it is before the statement.
exec_conversations_insert(t, sql) ==
    LET rows == SelectSeq(sql.values, LAMBDA v :
                    /\ select_user_id(t, v.user_lookup) # NULLID
                    /\ ~(\E c \in Range(t.conversations) : c.id = v.id))
    IN  [t EXCEPT !.conversations = @ \o
            [i \in 1..Len(rows) |->
                [id |-> rows[i].id, message_count |-> rows[i].message_count,
                 user_id |-> select_user_id(t, rows[i].user_lookup)]]]

\* INSERT INTO messages ...: a quoted parent cell is a syntax error, and the
\* statement then inserts nothing.
exec_messages_insert(t, sql) ==
    LET rows == SelectSeq(sql.values, LAMBDA v :
                    /\ select_user_id(t, v.user_lookup) # NULLID
                    /\ ~(\E m \in Range(t.messages) : m.id = v.id))
    IN  IF \E i \in 1..Len(sql.values) : sql.values[i].parent_message_id.form = "quoted"
        THEN [t EXCEPT !.notices = @ \cup {<<"syntax error", sql.values[1].conversation_id>>}]
        ELSE [t EXCEPT !.messages = @ \o
                [i \in 1..Len(rows) |->
                    [id |-> rows[i].id, conversation_id |-> rows[i].conversation_id,
                     parent_message_id |->
                         IF rows[i].parent_message_id.form = "expr"
                         THEN rows[i].parent_message_id.id ELSE NULLID,
                     user_id |-> select_user_id(t, rows[i].user_lookup)]]]

\* INSERT INTO message_content_blocks ... WHERE NOT EXISTS (... id = v.id)
exec_blocks_insert(t, sql) ==
    LET rows == SelectSeq(sql.values, LAMBDA v :
                    ~(\E b \in Range(t.blocks) : b.id = v.id))
    IN  [t EXCEPT !.blocks = @ \o
            [i \in 1..Len(rows) |-> [id |-> rows[i].id, message_id |-> rows[i].message_id]]]

exec_statement(t, sql) ==
    CASE sql.kind = "user"          -> exec_user_insert(t, sql)
      [] sql.kind = "folder"        -> exec_folder_insert(t, sql)
      [] sql.kind = "document"      -> exec_document_insert(t, sql)
      [] sql.kind = "chunk"         -> exec_chunk_insert(t, sql)
      [] sql.kind = "embedding"     -> exec_embedding_insert(t, sql)
      [] sql.kind = "conversations" -> exec_conversations_insert(t, sql)
      [] sql.kind = "messages"      -> exec_messages_insert(t, sql)
      [] sql.kind = "blocks"        -> exec_blocks_insert(t, sql)

\* A script run statement by statement: a block that skips or fails does not
\* stop the ones after it.
RECURSIVE exec_script(_, _)
exec_script(t, stmts) ==
    IF stmts = <<>> THEN t ELSE exec_script(exec_statement(t, stmts[1]), Tail(stmts))

\* The scripts the extraction writes for one extracted dataset; a frame without
\* rows gets no script.
generate_scripts(d) ==
    [users |-> generate_users_migration_sql(d.users).stmts,
     folders |-> generate_folders_migration_sql(d.folders).stmts,
     documents |-> generate_documents_migration_sql(d.documents).stmts,
     chunks_embeddings |->
         generate_chunks_embeddings_migration_sql(d.embeddings, FALSE, FALSE).stmts,
     conversations |-> generate_conversations_logs_migration_sql(d.logs).stmts]

\* The order the scripts name as their prerequisites.
ScriptOrder == <<"users", "folders", "documents", "chunks_embeddings", "conversations">>

RowCounts(t) ==
    [users |-> Len(t.users), folders |-> Len(t.folders), documents |-> Len(t.documents),
     chunks |-> Len(t.chunks), embeddings |-> Len(t.embeddings),
     conversations |-> Len(t.conversations), messages |-> Len(t.messages),
     blocks |-> Len(t.blocks)]

\* No script is being executed.
ExecIdle ==
    /\ dataset = NONE
    /\ scripts = NONE
    /\ target = EmptyTarget
    /\ pass = 0
    /\ inOrder = TRUE
    /\ onceTarget = NONE

GenIdle ==
    /\ genInput = NONE
    /\ genOutput = NONE

ExtIdle ==
    /\ extIn = NONE
    /\ extPc = "idle"
    /\ extQueries = <<>>
    /\ extResults = NONE

FindIdle ==
    /\ findIn = NONE
    /\ findOut = NONE

EmbIdle ==
    /\ embIn = NONE
    /\ embOut = NONE

RiskIdle ==
    /\ riskSource = NONE
    /\ riskAudit = NONE
    /\ riskTarget = NONE

AuditIdle ==
    /\ auditAt = <<0, 0>>
    /\ auditCalls = <<>>
    /\ auditResults = <<>>

ValIdle ==
    /\ valResults = <<>>
    /\ valReturn = NONE

LoadIdle ==
    /\ loadIn = NONE
    /\ loadAt = 0
    /\ loadPhase = "idle"
    /\ loadPending = NONE
    /\ loadResults = NONE
    /\ loadLog = <<>>

RunIdle ==
    /\ runOptions = NONE
    /\ session = NONE
    /\ runPc = "idle"
    /\ runResults = NONE
    /\ runStages = <<>>
    /\ report = NONE

\* ------------------------------------------------- generator inputs
UserIds == {"u1", "u2"}
EmailCells == {NULL, "", " ", "a@x.com", " a@x.com ", "b@x.com"}
UserRows == [id : UserIds \cup {NULL}, email : EmailCells]

FolderIds == {"f1", "f2", "f3"}
FolderRows == [id : FolderIds, parent_id : FolderIds \cup {NULL}, owner_id : {"u1"}]

\* The embeddings table's rows; documents stands for the documents extracted
\* with them (the generator is not handed them).  Chunks with and without a
\* vector under either document or none, a row without id, a summary row.
ChunkRows ==
    [id : {"c1", "c2"}, metadata : [doc_id : {"d1", "d2", NULL}, type : {"chunk-data"}],
     embeddings : {"[0.1]", NULL}]
    \cup {[id |-> NULL, metadata |-> [doc_id |-> "d1", type |-> "chunk-data"],
           embeddings |-> "[0.1]"],
          [id |-> "c1", metadata |-> [doc_id |-> "d1", type |-> "summary"],
           embeddings |-> "[0.1]"]}

\* The logs table's rows; the row at position i has the id LogIds[i].
LogIds == <<"l1", "l2", "l3", "l4">>
LogCells ==
    [user_id : {"u1", "u2"}, chat_id : {"k1", "k2"},
     message_index : {<<1>>, <<2>>}, question_number : {<<1>>, <<2>>}]
    \cup [user_id : {"u1", NULL}, chat_id : {"k1", NULL},
          message_index : {NAN}, question_number : {<<1>>}]
LogRow(cells, i) ==
    [id |-> LogIds[i], user_id |-> cells.user_id, chat_id |-> cells.chat_id,
     message_index |-> cells.message_index, question_number |-> cells.question_number]
LogFrames(cells, max) ==
    {[i \in 1..Len(c) |-> LogRow(c[i], i)] : c \in SeqsUpTo(cells, max)}

\* The calls: a frame of up to max_rows users, max_folders folders, max_rows
\* documents, max_rows chunks or max_logs logs, or a document field of up to
\* max_text pieces.
GenInputs(max_rows, max_folders, max_logs, max_text) ==
    {[kind |-> "users", rows |-> r] : r \in SeqsUpTo(UserRows, max_rows)}
    \cup {[kind |-> "folders", rows |-> r] : r \in SeqsUpTo(FolderRows, max_folders)}
    \cup {[kind |-> "documents", rows |-> r] :
             r \in SeqsUpTo([doc_id : {"d1", NULL}, owner_id : {"u1", NULL},
                             folder_id : {"f1", NULL}], max_rows)}
    \cup {[kind |-> "chunks", rows |-> r, documents |-> {"d1"},
           skip_empty_embeddings |-> s, na_is_nan |-> n] :
             r \in SeqsUpTo(ChunkRows, max_rows), s \in BOOLEAN, n \in BOOLEAN}
    \cup {[kind |-> "logs", rows |-> r] : r \in LogFrames(LogCells, max_logs)}
    \cup {[kind |-> "content", text |-> t] :
             t \in SeqsUpTo({"translated_content:", "original_content:", " ", "a", "b"}, max_text)}
    \cup {[kind |-> "question", question |-> q, question_in_english |-> e] :
             q \in QuestionCells, e \in {NULL, "", " ", "what?"}}

GenInit ==
    /\ genInput \in GenInputs(MaxRows, MaxFolders, MaxLogs, MaxText)
    /\ genOutput = NONE
    /\ ExecIdle
    /\ ExtIdle
    /\ RunIdle
    /\ LoadIdle
    /\ ValIdle
    /\ AuditIdle
    /\ RiskIdle
    /\ EmbIdle
    /\ FindIdle

GenUsers ==
    /\ genInput.kind = "users"
    /\ genOutput = NONE
    /\ genOutput' = generate_users_migration_sql(genInput.rows)
    /\ UNCHANGED <<genInput, execVars, extVars, runVars, loadVars, valVars, auditVars, riskVars, embVars, findVars>>

GenFolders ==
    /\ genInput.kind = "folders"
    /\ genOutput = NONE
    /\ genOutput' = generate_folders_migration_sql(genInput.rows)
    /\ UNCHANGED <<genInput, execVars, extVars, runVars, loadVars, valVars, auditVars, riskVars, embVars, findVars>>

GenDocuments ==
    /\ genInput.kind = "documents"
    /\ genOutput = NONE
    /\ genOutput' = generate_documents_migration_sql(genInput.rows)
    /\ UNCHANGED <<genInput, execVars, extVars, runVars, loadVars, valVars, auditVars, riskVars, embVars, findVars>>

GenChunks ==
    /\ genInput.kind = "chunks"
    /\ genOutput = NONE
    /\ genOutput' = generate_chunks_embeddings_migration_sql(
                        genInput.rows, genInput.skip_empty_embeddings, genInput.na_is_nan)
    /\ UNCHANGED <<genInput, execVars, extVars, runVars, loadVars, valVars, auditVars, riskVars, embVars, findVars>>

GenContent ==
    /\ genInput.kind = "content"
    /\ genOutput = NONE
    /\ genOutput' = [kind |-> "content", raised |-> FALSE]
                        @@ extract_content_from_document(genInput.text)
    /\ UNCHANGED <<genInput, execVars, extVars, runVars, loadVars, valVars, auditVars, riskVars, embVars, findVars>>

\* The text of the user's content block of one log row: the question, or
\* question_in_english when the question is the placeholder.
GenQuestion ==
    /\ genInput.kind = "question"
    /\ genOutput = NONE
    /\ LET user_question == extract_question_from_jsonb(genInput.question)
       IN  genOutput' =
             IF user_question.raised THEN [kind |-> "question", raised |-> TRUE]
             ELSE [kind |-> "question", raised |-> FALSE,
                   text |-> IF user_question.text = "[no question text]"
                            THEN IF clean_string(genInput.question_in_english) # NULL
                                 THEN clean_string(genInput.question_in_english)
                                 ELSE "[no question text]"
                            ELSE user_question.text]
    /\ UNCHANGED <<genInput, execVars, extVars, runVars, loadVars, valVars, auditVars, riskVars, embVars, findVars>>

GenLogs ==
    /\ genInput.kind = "logs"
    /\ genOutput = NONE
    /\ genOutput' = generate_conversations_logs_migration_sql(genInput.rows)
    /\ UNCHANGED <<genInput, execVars, extVars, runVars, loadVars, valVars, auditVars, riskVars, embVars, findVars>>

GenNext == GenUsers \/ GenFolders \/ GenDocuments \/ GenChunks \/ GenContent \/ GenQuestion \/ GenLogs

SpecGen == GenInit /\ [][GenNext]_vars

\* ------------------------------------------------- executing the scripts
MaxExecUsers == 2     \* rows of the users dataframe of an executed dataset

ExecUserRows == [id : UserIds, email : {"a@x.com", " "}]
ExecFolderRows == [id : {"f1", "f2"}, parent_id : {NULL, "f1"}, owner_id : UserIds]
ExecDocumentRows == [doc_id : {"d1", "d2"}, owner_id : UserIds, folder_id : {NULL}]
ExecChunkRows ==
    [id : {"c1", "c2"}, metadata : [doc_id : {"d1", "d2"}, type : {"chunk-data"}],
     embeddings : {"[0.1]"}]
    \cup {[id |-> "c1", metadata |-> [doc_id |-> "d1", type |-> "chunk-data"],
           embeddings |-> NULL]}
ExecLogCells ==
    [user_id : UserIds, chat_id : {"k1", "k2"}, message_index : {<<1>>},
     question_number : {<<1>>}]

Pairs(S) == {<<>>} \cup {<<a>> : a \in S} \cup {<<a, b>> : a \in S, b \in S}

\* The extracted datasets: up to max_users users with their folders, or with a
\* document and its chunks, or with their logs.
ExecDatasets(max_users) ==
    LET none == [folders |-> <<>>, documents |-> <<>>, embeddings |-> <<>>, logs |-> <<>>]
        rest == {[none EXCEPT !.folders = f] : f \in Pairs(ExecFolderRows)}
                \cup {[none EXCEPT !.documents = d, !.embeddings = e] :
                        d \in {<<>>} \cup {<<r>> : r \in ExecDocumentRows},
                        e \in Pairs(ExecChunkRows)}
                \cup {[none EXCEPT !.logs = [i \in 1..Len(l) |-> LogRow(l[i], i)]] :
                        l \in Pairs(ExecLogCells)}
    IN  {[users |-> u, folders |-> r.folders, documents |-> r.documents,
          embeddings |-> r.embeddings, logs |-> r.logs] :
            u \in SeqsUpTo(ExecUserRows, max_users), r \in rest}

TwoPasses == ScriptOrder \o ScriptOrder

ExecInit ==
    /\ dataset \in ExecDatasets(MaxExecUsers)
    /\ scripts = generate_scripts(dataset)
    /\ target = EmptyTarget
    /\ pass = 0
    /\ inOrder = TRUE
    /\ onceTarget = NONE
    /\ GenIdle
    /\ ExtIdle
    /\ RunIdle
    /\ LoadIdle
    /\ ValIdle
    /\ AuditIdle
    /\ RiskIdle
    /\ EmbIdle
    /\ FindIdle

\* psql -f <the script called name>
Execute(name) ==
    LET followed == inOrder /\ pass < Len(TwoPasses) /\ TwoPasses[pass + 1] = name
    IN  /\ target' = exec_script(target, scripts[name])
        /\ inOrder' = followed
        /\ pass' = IF followed THEN pass + 1 ELSE 0
        /\ onceTarget' = IF ~followed THEN NONE
                         ELSE IF pass + 1 = Len(ScriptOrder) THEN target'
                         ELSE onceTarget
        /\ UNCHANGED <<dataset, scripts, genVars, extVars, runVars, loadVars, valVars, auditVars, riskVars, embVars, findVars>>

ExecUsers == Execute("users")
ExecFolders == Execute("folders")
ExecDocuments == Execute("documents")
ExecChunksEmbeddings == Execute("chunks_embeddings")
ExecConversations == Execute("conversations")

ExecNext ==
    ExecUsers \/ ExecFolders \/ ExecDocuments \/ ExecChunksEmbeddings \/ ExecConversations

SpecExec == ExecInit /\ [][ExecNext]_vars

\* ------------------------------------------------- extraction.py: run_full_extraction
MaxSrcRows == 2       \* rows a query of the source returns

\* config.py: the tables get_table_name knows, and the order it declares.
TABLE_DEFINITIONS ==
    {"users", "folders", "custom_documents", "embeddings", "users_groups", "agents"}
EXTRACTION_ORDER ==
    <<"users_groups", "users", "folders", "custom_documents", "embeddings", "agents">>

\* The queries execute_query is called with: the users table's columns, then one
\* per table.
Queries == {"users_columns"} \cup TABLE_DEFINITIONS \cup {"logs"}

\* An optional list of selected ids: not given, given empty, given with ids.
Selections == {"None", "empty", "ids"}

ExtInputs ==
    [users : 0..MaxSrcRows,          \* rows the users query returns
     has_groups : BOOLEAN,           \* some returned user has a group id
     documents : 0..MaxSrcRows,      \* rows the documents query returns
     others : 0..1,                  \* rows every other query returns
     selected_doc_ids : Selections,
     selected_embedding_ids : Selections,
     selected_agent_ids : Selections,
     failing : Queries \cup {"none"}] \* the query the source fails, if any

new_results == [files |-> {}, summary |-> {}, errors |-> <<>>]

\* results["files"][name] = path; results["summary"][name] = len(df)
record(results, name, rows) ==
    [results EXCEPT !.files = @ \cup {name},
                    !.summary = {e \in @ : e[1] # name} \cup {<<name, rows>>}]

\* results["summary"][name] = 0
record_none(results, name) ==
    [results EXCEPT !.summary = {e \in @ : e[1] # name} \cup {<<name, 0>>}]

\* An except clause that starts the results over.
on_exception_Discard(results, e) ==
    [new_results EXCEPT !.errors = <<<<"Extraction failed", e>>>>]

\* except Exception as e: results["errors"].append(f"Extraction failed: {str(e)}")
on_exception(results, e) ==
    [results EXCEPT !.errors = Append(@, <<"Extraction failed", e>>)]

no_users_Never(user_ids) == FALSE

\* if not user_ids:
no_users(user_ids) == user_ids = 0

\* One stage: the queries it sends in turn; the first the source fails raises,
\* and the except clause ends the run.  Otherwise the stage's entries are
\* recorded and the run goes on at next.
Stage(stage, queries, results, next) ==
    /\ extPc = stage
    /\ IF \E i \in 1..Len(queries) : queries[i] = extIn.failing
       THEN LET k == CHOOSE i \in 1..Len(queries) : queries[i] = extIn.failing
            IN  /\ extQueries' = extQueries \o SubSeq(queries, 1, k)
                /\ extResults' = on_exception(extResults, queries[k])
                /\ extPc' = "done"
       ELSE /\ extQueries' = extQueries \o queries
            /\ extResults' = results
            /\ extPc' = next
    /\ UNCHANGED <<extIn, genVars, execVars, runVars, loadVars, valVars, auditVars, riskVars, embVars, findVars>>

ExtInit ==
    /\ extIn \in ExtInputs
    /\ extPc = "users"
    /\ extQueries = <<>>
    /\ extResults = new_results
    /\ GenIdle
    /\ ExecIdle
    /\ RunIdle
    /\ LoadIdle
    /\ ValIdle
    /\ AuditIdle
    /\ RiskIdle
    /\ EmbIdle
    /\ FindIdle

\* 1. users; the run returns with an error when there is none.
ExtractUsers ==
    LET found == record(extResults, "users", extIn.users)
    IN  IF no_users(extIn.users)
        THEN Stage("users", <<"users_columns", "users">>,
                   [found EXCEPT !.errors = Append(@, <<"No users found">>)], "done")
        ELSE Stage("users", <<"users_columns", "users">>, found, "users_groups")

\* 2. user groups, queried only when a user has a group id.
ExtractUsersGroups ==
    IF extIn.has_groups
    THEN Stage("users_groups", <<"users_groups">>,
               record(extResults, "users_groups", extIn.others), "folders")
    ELSE Stage("users_groups", <<>>, record_none(extResults, "users_groups"), "folders")

\* 3. folders
ExtractFolders ==
    Stage("folders", <<"folders">>, record(extResults, "folders", extIn.others), "documents")

\* The rows of docs_df: none, without a query, for an empty selection.
docs_df == IF extIn.selected_doc_ids = "empty" THEN 0 ELSE extIn.documents

\* 4. documents
ExtractDocuments ==
    Stage("documents",
          IF extIn.selected_doc_ids = "empty" THEN <<>> ELSE <<"custom_documents">>,
          record(extResults, "documents", docs_df), "embeddings")

\* 5. embeddings, only when documents were found
ExtractEmbeddings ==
    IF docs_df > 0
    THEN IF extIn.selected_embedding_ids = "empty"
         THEN Stage("embeddings", <<>>, record(extResults, "embeddings", 0), "agents")
         ELSE Stage("embeddings", <<"embeddings">>,
                    record(extResults, "embeddings", extIn.others), "agents")
    ELSE Stage("embeddings", <<>>, record_none(extResults, "embeddings"), "agents")

\* 6. agents
ExtractAgents ==
    IF extIn.selected_agent_ids = "empty"
    THEN Stage("agents", <<>>, record(extResults, "agents", 0), "logs")
    ELSE Stage("agents", <<"agents">>, record(extResults, "agents", extIn.others), "logs")

\* 7. logs: get_table_name("logs", prefix) raises ValueError for a table that
\* TABLE_DEFINITIONS does not hold, before a query is sent.
ExtractLogs ==
    /\ extPc = "logs"
    /\ IF "logs" \in TABLE_DEFINITIONS
       THEN Stage("logs", <<"logs">>, record(extResults, "logs", extIn.others), "done")
       ELSE /\ extResults' = on_exception(extResults, "Unknown table: logs")
            /\ extPc' = "done"
            /\ UNCHANGED <<extIn, extQueries, genVars, execVars, runVars, loadVars, valVars, auditVars, riskVars, embVars, findVars>>

ExtNext ==
    \/ ExtractUsers \/ ExtractUsersGroups \/ ExtractFolders \/ ExtractDocuments
    \/ ExtractEmbeddings \/ ExtractAgents \/ ExtractLogs

SpecExtract == ExtInit /\ [][ExtNext]_vars

\* ------------------------------------------------- 5_run.py: run_full_migration
\* Python's None and its empty dictionary.
None == [py |-> "None"]
EmptyDict == [py |-> "{}"]

\* d.get(key, default) of a results dictionary; None has no get.
Get(d, key, default) == IF d = EmptyDict THEN default ELSE d[key]

\* What an extraction or a transformation returns: the rows of its summary and
\* its error list.
StageResults == [summary : 0..1, errors : {<<>>, <<"error">>}]

\* run_full_extraction always returns with an error: its last stage raises
\* (ExtractLogs), when no earlier one has ended the run.
ExtractionResults == {r \in StageResults : r.errors # <<>>}
TransformationResults == StageResults
ValidationResults == [overall_status : {"pass", "fail"}]
LoadResults == [summary : 0..1, errors : {<<>>, <<"error">>}]

ResumeFrom == <<"Start Fresh", "Extract", "Transform", "Validate", "Load">>

RunOptions ==
    [resume_from : Range(ResumeFrom), dry_run : BOOLEAN,
     stop_on_validation_fail : BOOLEAN, target_config : BOOLEAN]

\* The session holds the data of earlier runs and pages, or does not.
Sessions ==
    [extracted_data : StageResults \cup {EmptyDict},
     transformed_data : StageResults \cup {EmptyDict}]

\* options["resume_from"] in [the steps up to and including upto]
ResumesBy(upto) ==
    \E i \in 1..Len(ResumeFrom) :
        /\ ResumeFrom[i] = runOptions.resume_from
        /\ \E j \in i..Len(ResumeFrom) : ResumeFrom[j] = upto

RunInit ==
    /\ runOptions \in RunOptions
    /\ session \in Sessions
    /\ runPc = "extract"
    /\ runResults = [extraction |-> None, transformation |-> None,
                     validation |-> None, load |-> None]
    /\ runStages = <<>>
    /\ report = NONE
    /\ GenIdle
    /\ ExecIdle
    /\ ExtIdle
    /\ LoadIdle
    /\ ValIdle
    /\ AuditIdle
    /\ RiskIdle
    /\ EmbIdle
    /\ FindIdle

\* Step 1: extract, or take the session's extracted data.
RunExtract ==
    /\ runPc = "extract"
    /\ IF ResumesBy("Extract")
       THEN \E r \in ExtractionResults :
               /\ runResults' = [runResults EXCEPT !.extraction = r]
               /\ session' = [session EXCEPT !.extracted_data = r]
               /\ runPc' = IF r.errors # <<>> THEN "report" ELSE "transform"
               /\ runStages' = Append(runStages, "extract")
       ELSE /\ runResults' = [runResults EXCEPT !.extraction = session.extracted_data]
            /\ runPc' = "transform"
            /\ UNCHANGED <<session, runStages>>
    /\ UNCHANGED <<runOptions, report, genVars, execVars, extVars, loadVars, valVars, auditVars, riskVars, embVars, findVars>>

\* Step 2: transform, or take the session's transformed data.
RunTransform ==
    /\ runPc = "transform"
    /\ IF ResumesBy("Transform")
       THEN \E r \in TransformationResults :
               /\ runResults' = [runResults EXCEPT !.transformation = r]
               /\ session' = [session EXCEPT !.transformed_data = r]
               /\ runPc' = IF r.errors # <<>> THEN "report" ELSE "validate"
               /\ runStages' = Append(runStages, "transform")
       ELSE /\ runResults' = [runResults EXCEPT !.transformation = session.transformed_data]
            /\ runPc' = "validate"
            /\ UNCHANGED <<session, runStages>>
    /\ UNCHANGED <<runOptions, report, genVars, execVars, extVars, loadVars, valVars, auditVars, riskVars, embVars, findVars>>

\* Step 3: validate, unless the run resumes from the load.
RunValidate ==
    /\ runPc = "validate"
    /\ IF ResumesBy("Validate")
       THEN \E r \in ValidationResults :
               /\ runResults' = [runResults EXCEPT !.validation = r]
               /\ runPc' = IF r.overall_status = "fail" /\ runOptions.stop_on_validation_fail
                           THEN "report" ELSE "load"
               /\ runStages' = Append(runStages, "validate")
       ELSE /\ runPc' = "load"
            /\ UNCHANGED <<runResults, runStages>>
    /\ UNCHANGED <<runOptions, session, report, genVars, execVars, extVars, loadVars, valVars, auditVars, riskVars, embVars, findVars>>

\* if target_config and not options["dry_run"]:
load_enabled_Always(target_config, options) == TRUE
load_enabled(target_config, options) == target_config /\ ~options.dry_run

\* Step 4: load, only with a target and not in a dry run.
RunLoad ==
    /\ runPc = "load"
    /\ IF load_enabled(runOptions.target_config, runOptions) /\ ResumesBy("Load")
       THEN /\ \E r \in LoadResults : runResults' = [runResults EXCEPT !.load = r]
            /\ runStages' = Append(runStages, "load")
       ELSE UNCHANGED <<runResults, runStages>>
    /\ runPc' = "report"
    /\ UNCHANGED <<runOptions, session, report, genVars, execVars, extVars, loadVars, valVars, auditVars, riskVars, embVars, findVars>>

\* validation.py: generate_migration_report.  A call of get on None raises
\* AttributeError.
generate_migration_report(extraction_results, transformation_results, validation_results, load_results) ==
    IF extraction_results = None \/ transformation_results = None
    THEN [raised |-> TRUE]
    ELSE LET extraction == [tables |-> Get(extraction_results, "summary", EmptyDict),
                            errors |-> Get(extraction_results, "errors", <<>>)]
             transformation == [tables |-> Get(transformation_results, "summary", EmptyDict),
                                errors |-> Get(transformation_results, "errors", <<>>)]
             load == IF load_results # None
                     THEN [summary |-> load_results.summary, errors |-> load_results.errors]
                     ELSE None
             made(status) ==
                 [raised |-> FALSE, extraction |-> extraction,
                  transformation |-> transformation, validation |-> validation_results,
                  load |-> load, overall_status |-> status]
         IN  IF extraction.errors # <<>> THEN made("failed")
             ELSE IF transformation.errors # <<>> THEN made("failed")
             ELSE IF validation_results = None THEN [raised |-> TRUE]
             ELSE IF Get(validation_results, "overall_status", None) = "fail"
             THEN made("failed")
             ELSE IF load_results # None /\ load_results.errors # <<>> THEN made("partial")
             ELSE made("success")

\* main: results.get(key, {}) is the value under the key, None included, since
\* results holds every key.
GenerateReport ==
    /\ runPc = "report"
    /\ report' = generate_migration_report(runResults.extraction, runResults.transformation,
                                           runResults.validation, runResults.load)
    /\ runPc' = "reported"
    /\ UNCHANGED <<runOptions, session, runResults, runStages, genVars, execVars, extVars, loadVars, valVars, auditVars, riskVars, embVars, findVars>>

RunNext == RunExtract \/ RunTransform \/ RunValidate \/ RunLoad \/ GenerateReport

SpecRun == RunInit /\ [][RunNext]_vars

\* ------------------------------------------------- loader.py: load_all
MaxLoadRows == 2      \* rows of a transformed CSV file

LOAD_ORDER == <<"users_groups", "users", "folders", "documents", "embeddings", "agents">>

\* The result dictionary load_table starts from.
new_table_result(logical_name) ==
    [table |-> logical_name, rows_loaded |-> 0, rows_failed |-> 0,
     status |-> "pending", sql_preview |-> NULL, error |-> NULL]

\* The results dictionary load_all starts from; tables in insertion order.
new_load_results(dry_run) ==
    [dry_run |-> dry_run, tables |-> <<>>,
     summary |-> [total_loaded |-> 0, total_failed |-> 0,
                  tables_succeeded |-> 0, tables_failed |-> 0],
     errors |-> <<>>]

\* load_all's bookkeeping of one table's result.
load_all_record(results, table_result) ==
    LET with_table == [results EXCEPT !.tables = Append(@, table_result)] IN
    IF table_result.status \in {"success", "partial", "dry_run"}
    THEN [with_table EXCEPT
            !.summary.total_loaded = @ + table_result.rows_loaded,
            !.summary.total_failed = @ + table_result.rows_failed,
            !.summary.tables_succeeded = @ + 1]
    ELSE IF table_result.status = "error"
    THEN [with_table EXCEPT
            !.summary.tables_failed = @ + 1,
            !.errors = IF table_result.error # NULL
                       THEN Append(@, <<table_result.table, table_result.error>>)
                       ELSE @]
    ELSE with_table

strict_break_Never(table_result, strict_mode, dry_run) == FALSE
strict_break_DryRunToo(table_result, strict_mode, dry_run) == table_result.status = "error" /\ strict_mode

\* The break of load_all's loop.
strict_break(table_result, strict_mode, dry_run) ==
    table_result.status = "error" /\ strict_mode /\ ~dry_run

\* load_table returns table_result to load_all, which records it and goes on
\* to the next table, or leaves the loop.
LoadReturn(table_result, log) ==
    /\ loadResults' = load_all_record(loadResults, table_result)
    /\ loadLog' = Append(log, <<"return", table_result.table>>)
    /\ loadPending' = NONE
    /\ IF \/ strict_break(table_result, loadIn.strict_mode, loadIn.dry_run)
          \/ loadAt = Len(LOAD_ORDER)
       THEN loadPhase' = "returned" /\ loadAt' = loadAt
       ELSE loadPhase' = "next" /\ loadAt' = loadAt + 1

LoadInputs(max_rows) ==
    [strict_mode : BOOLEAN, dry_run : BOOLEAN,
     load_mode : {"truncate", "upsert"}, rows : {max_rows}]

LoadInit ==
    /\ loadIn \in LoadInputs(MaxLoadRows)
    /\ loadAt = 1
    /\ loadPhase = "next"
    /\ loadPending = NONE
    /\ loadResults = new_load_results(loadIn.dry_run)
    /\ loadLog = <<>>
    /\ GenIdle
    /\ ExecIdle
    /\ ExtIdle
    /\ RunIdle
    /\ ValIdle
    /\ AuditIdle
    /\ RiskIdle
    /\ EmbIdle
    /\ FindIdle

\* load_table up to its first insert: the input file is looked up and read,
\* and outside a dry run the connection is opened and the table truncated.
LoadTableBegin ==
    /\ loadPhase = "next"
    /\ LET t == LOAD_ORDER[loadAt]
           r == new_table_result(t)
           \* the result once the file is read: the statements and a row count
           read == [r EXCEPT !.sql_preview = IF loadIn.load_mode = "truncate"
                                             THEN "TRUNCATE TABLE; INSERT INTO; -- rows"
                                             ELSE "INSERT INTO ON CONFLICT; -- rows"]
           log == Append(loadLog, <<"begin", t>>)
       IN \E file \in {"missing", "unreadable", "empty", "rows"}, connects \in BOOLEAN :
            CASE file = "missing" ->
                   LoadReturn([r EXCEPT !.status = "skipped", !.error = "No input file found"], log)
              [] file = "unreadable" ->
                   LoadReturn([r EXCEPT !.status = "error", !.error = "Failed to read CSV"], log)
              [] file = "empty" ->
                   LoadReturn([r EXCEPT !.status = "skipped", !.error = "No data to load"], log)
              [] file = "rows" /\ loadIn.dry_run ->
                   LoadReturn([read EXCEPT !.status = "dry_run", !.rows_loaded = loadIn.rows], log)
              [] file = "rows" /\ ~loadIn.dry_run /\ ~connects ->
                   LoadReturn([read EXCEPT !.status = "error", !.error = "connection failed"], log)
              [] file = "rows" /\ ~loadIn.dry_run /\ connects ->
                   /\ loadPending' = [result |-> read, loaded |-> 0, failed |-> 0,
                                      todo |-> loadIn.rows, aborted |-> FALSE]
                   /\ loadPhase' = "inserting"
                   /\ loadLog' = IF loadIn.load_mode = "truncate"
                                 THEN Append(log, <<"truncate", t>>)
                                 ELSE log
                   /\ UNCHANGED <<loadAt, loadResults>>
    /\ UNCHANGED <<loadIn, genVars, execVars, extVars, runVars, valVars, auditVars, riskVars, embVars, findVars>>

\* One turn of load_table's row loop.  The connection is not in autocommit
\* mode: once an insert has failed the transaction is aborted and every later
\* insert of the table fails too.
LoadTableInsert ==
    /\ loadPhase = "inserting"
    /\ loadPending.todo > 0
    /\ \E raises \in BOOLEAN :
        /\ loadPending.aborted => raises
        /\ loadPending' =
             IF raises
             THEN [loadPending EXCEPT !.failed = @ + 1, !.todo = @ - 1,
                                      !.aborted = TRUE,
                                      !.result.error = "insert failed"]
             ELSE [loadPending EXCEPT !.loaded = @ + 1, !.todo = @ - 1]
    /\ loadLog' = Append(loadLog, <<"insert", LOAD_ORDER[loadAt]>>)
    /\ UNCHANGED <<loadIn, loadAt, loadPhase, loadResults, genVars, execVars, extVars, runVars, valVars, auditVars, riskVars, embVars, findVars>>

\* The commit after the row loop, and load_table's return.  The commit of an
\* aborted transaction rolls it back.
LoadTableCommit ==
    /\ loadPhase = "inserting"
    /\ loadPending.todo = 0
    /\ LET t == LOAD_ORDER[loadAt]
           log == Append(loadLog, <<IF loadPending.aborted THEN "rollback" ELSE "commit", t>>)
           r == [loadPending.result EXCEPT
                   !.rows_loaded = loadPending.loaded,
                   !.rows_failed = loadPending.failed,
                   !.status = IF loadPending.failed = 0 THEN "success" ELSE "partial"]
       IN LoadReturn(r, log)
    /\ UNCHANGED <<loadIn, genVars, execVars, extVars, runVars, valVars, auditVars, riskVars, embVars, findVars>>

LoadNext == LoadTableBegin \/ LoadTableInsert \/ LoadTableCommit

SpecLoad == LoadInit /\ [][LoadNext]_vars

\* ------------------------------------------------- validation.py: run_all_validations
\* The checks run_all_validations runs, in its order, each with the statuses
\* its code can give its result; "raise" stands for a check that raises (the
\* referential checks index columns without looking whether they exist).
ValidationChecks ==
    << [name |-> "Row Count Consistency", statuses |-> {"pass", "fail"}],
       [name |-> "Users Required Columns", statuses |-> {"skipped", "pass", "fail"}],
       [name |-> "Documents Required Columns", statuses |-> {"skipped", "pass", "fail"}],
       [name |-> "Document-User Referential Integrity", statuses |-> {"skipped", "pass", "fail", "raise"}],
       [name |-> "Embedding-Document Referential Integrity", statuses |-> {"skipped", "pass", "fail", "raise"}],
       [name |-> "UUID Format Validation", statuses |-> {"pass", "warning"}],
       [name |-> "Timestamp Format Validation", statuses |-> {"pass", "warning"}] >>

count_status(results, status) ==
    Cardinality({i \in 1..Len(results) : results[i].status = status})

validation_summary(results) ==
    [total |-> Len(results),
     passed |-> count_status(results, "pass"),
     failed |-> count_status(results, "fail"),
     warnings |-> count_status(results, "warning"),
     skipped |-> count_status(results, "skipped")]

overall_status_Strict(summary) == IF summary.failed + summary.warnings > 0 THEN "fail" ELSE "pass"

overall_status(summary) == IF summary.failed > 0 THEN "fail" ELSE "pass"

ValInit ==
    /\ valResults = <<>>
    /\ valReturn = NONE
    /\ GenIdle
    /\ ExecIdle
    /\ ExtIdle
    /\ RunIdle
    /\ LoadIdle
    /\ AuditIdle
    /\ RiskIdle
    /\ EmbIdle
    /\ FindIdle

\* The next validate_* call of run_all_validations: it appends its result to
\* self.results, or raises out of run_all_validations.
RunCheck ==
    /\ valReturn = NONE
    /\ Len(valResults) < Len(ValidationChecks)
    /\ LET check == ValidationChecks[Len(valResults) + 1] IN
       \E status \in check.statuses :
          IF status = "raise"
          THEN valReturn' = [raised |-> TRUE] /\ UNCHANGED valResults
          ELSE /\ valResults' = Append(valResults, [name |-> check.name, status |-> status])
               /\ UNCHANGED valReturn
    /\ UNCHANGED <<genVars, execVars, extVars, runVars, loadVars, auditVars, riskVars, embVars, findVars>>

\* The summary and the dictionary run_all_validations returns.
BuildSummary ==
    /\ valReturn = NONE
    /\ Len(valResults) = Len(ValidationChecks)
    /\ valReturn' = [raised |-> FALSE, results |-> valResults,
                     summary |-> validation_summary(valResults),
                     overall_status |-> overall_status(validation_summary(valResults))]
    /\ UNCHANGED <<valResults, genVars, execVars, extVars, runVars, loadVars, auditVars, riskVars, embVars, findVars>>

SpecValidate == ValInit /\ [][RunCheck \/ BuildSummary]_vars

\* ------------------------------------------------- audit.py: run_full_audit
\* The sections of run_full_audit, in its order, each with the keys of its
\* checks in the order they are called.
AuditSections ==
    << [name |-> "users",
        checks |-> <<"top_by_logs", "top_by_documents", "top_by_chunks", "without_email",
                     "username_collisions">>],
       [name |-> "folders",
        checks |-> <<"hierarchy_depth", "multilevel", "type_distribution", "orphaned">>],
       [name |-> "documents",
        checks |-> <<"type_distribution", "problematic_types", "blob_source_distribution",
                     "orphaned_count", "missing_folders_count", "duplicate_ids">>],
       [name |-> "chunks_embeddings",
        checks |-> <<"per_document", "orphaned", "without_embeddings", "dimensions",
                     "type_distribution">>],
       [name |-> "conversations",
        checks |-> <<"top_users", "size_distribution", "without_user", "without_chat_id",
                     "invalid_chat_ids", "question_extraction_issues", "orphaned",
                     "model_usage", "bot_usage", "token_stats">>],
       [name |-> "cross_table",
        checks |-> <<"missing_users", "data_loss_risk">>] >>

section_except_Everywhere(results, section) == [s \in DOMAIN results |-> results[s] \cup {"error"}]

\* The except clause of a section: the error is stored under the section.
section_except(results, section) == [results EXCEPT ![section] = @ \cup {"error"}]

AuditInit ==
    /\ auditAt = <<1, 1>>
    /\ auditCalls = <<>>
    /\ auditResults = [s \in 1..Len(AuditSections) |-> {}]
    /\ GenIdle
    /\ ExecIdle
    /\ ExtIdle
    /\ RunIdle
    /\ LoadIdle
    /\ ValIdle
    /\ RiskIdle
    /\ EmbIdle
    /\ FindIdle

\* One check of run_full_audit: its result is stored under its key, or it
\* raises and the section's except clause takes over; either way the audit
\* goes on, with the section's next check or with the next section.
AuditCheck ==
    /\ auditAt[1] <= Len(AuditSections)
    /\ LET section == auditAt[1]
           check == auditAt[2]
           checks == AuditSections[section].checks
       IN \E raises \in BOOLEAN :
            /\ auditCalls' = Append(auditCalls, [section |-> section, check |-> check, raised |-> raises])
            /\ auditResults' = IF raises
                               THEN section_except(auditResults, section)
                               ELSE [auditResults EXCEPT ![section] = @ \cup {checks[check]}]
            /\ auditAt' = IF raises \/ check = Len(checks)
                          THEN <<section + 1, 1>>
                          ELSE <<section, check + 1>>
    /\ UNCHANGED <<genVars, execVars, extVars, runVars, loadVars, valVars, riskVars, embVars, findVars>>

SpecAudit == AuditInit /\ [][AuditCheck]_vars

\* ------------------------------------------------- documents at risk: audit.py and the pipeline
\* Source databases: a users table and a custom_documents table, with the
\* user_emails the extraction is run for (empty: every user).
RiskSources ==
    LET present(rows) == SelectSeq(rows, LAMBDA r : r # NONE)
        users == {present(<<a, b>>) :
                    a \in {NONE, [id |-> "u1", email |-> "a@x.com"], [id |-> "u1", email |-> NULL]},
                    b \in {NONE, [id |-> "u2", email |-> "b@x.com"], [id |-> "u2", email |-> " "]}}
        documents == {present(<<a, b>>) :
                    a \in {NONE} \cup [doc_id : {"d1"}, owner_id : {"u1", "u3"}, folder_id : {NULL}],
                    b \in {NONE} \cup [doc_id : {"d2"}, owner_id : {"u1", "u2"}, folder_id : {NULL}]}
    IN  [users : users, documents : documents, user_emails : {<<>>, <<"a@x.com">>, <<"a@x.com", "b@x.com">>}]

\* extract_users: the rows of the users table, all of them or those whose
\* email is one of user_emails.
extract_users(source, user_emails) ==
    IF user_emails # <<>>
    THEN SelectSeq(source.users, LAMBDA u : u.email \in Range(user_emails))
    ELSE source.users

\* extract_documents without a document selection: owner_id IN user_ids.
extract_documents(source, user_ids) ==
    SelectSeq(source.documents, LAMBDA d : d.owner_id \in user_ids)

\* The 'documents without valid user' row of audit_data_loss_risk_summary.
documents_without_valid_user(source) ==
    Cardinality({i \in 1..Len(source.documents) :
                    ~\E u \in Range(source.users) : u.id = source.documents[i].owner_id})

\* The target after the users script and the documents script of the
\* extraction of the source have been executed on an empty target.
migrate_documents(source) ==
    LET users_df == extract_users(source, source.user_emails)
        documents_df == IF users_df = <<>> THEN <<>>
                   ELSE extract_documents(source, {users_df[i].id : i \in 1..Len(users_df)})
        users_done == exec_script(EmptyTarget, generate_users_migration_sql(users_df).stmts)
    IN  exec_script(users_done, generate_documents_migration_sql(documents_df).stmts)

RiskInit ==
    /\ riskSource \in RiskSources
    /\ riskAudit = NONE
    /\ riskTarget = NONE
    /\ GenIdle
    /\ ExecIdle
    /\ ExtIdle
    /\ RunIdle
    /\ LoadIdle
    /\ ValIdle
    /\ AuditIdle
    /\ EmbIdle
    /\ FindIdle

AuditDataLossRisk ==
    /\ riskAudit = NONE
    /\ riskAudit' = [rows_at_risk |-> documents_without_valid_user(riskSource)]
    /\ UNCHANGED <<riskSource, riskTarget, genVars, execVars, extVars, runVars, loadVars, valVars, auditVars, embVars, findVars>>

MigrateDocuments ==
    /\ riskTarget = NONE
    /\ riskTarget' = migrate_documents(riskSource)
    /\ UNCHANGED <<riskSource, riskAudit, genVars, execVars, extVars, runVars, loadVars, valVars, auditVars, embVars, findVars>>

SpecRisk == RiskInit /\ [][AuditDataLossRisk \/ MigrateDocuments]_vars

\* ------------------------------------------------- extraction.py: extract_embeddings
\* The rows of the source embeddings table, the doc_ids of the extracted
\* documents and the embedding selection (None, or a list of ids).
EmbInputs ==
    [table : {<<a, b, c>> : a \in [id : {"c1"}, doc_id : {"d1", "d2"}],
                            b \in [id : {"c2"}, doc_id : {"d1", "d2", NULL}],
                            c \in [id : {"c3"}, doc_id : {"d2", "d3"}]},
     doc_ids : {<<>>, <<"d1">>, <<"d1", "d2">>},
     selected_embedding_ids : {None, [list |-> <<>>], [list |-> <<"c1">>], [list |-> <<"c2", "c3">>]}]

\* extract_embeddings: the frame it returns and the queries it issued, each
\* named by the column its WHERE clause filters on.
extract_embeddings(table, doc_ids, selected_embedding_ids) ==
    IF selected_embedding_ids # None
    THEN IF selected_embedding_ids.list = <<>>
         THEN [rows |-> <<>>, queries |-> <<>>]
         ELSE [rows |-> SelectSeq(table, LAMBDA r : r.id \in Range(selected_embedding_ids.list)),
               queries |-> <<"id">>]
    ELSE IF doc_ids # <<>>
    THEN [rows |-> SelectSeq(table, LAMBDA r : r.doc_id \in Range(doc_ids)),
          queries |-> <<"doc_id">>]
    ELSE [rows |-> <<>>, queries |-> <<>>]

\* The embeddings step of run_full_extraction.
embeddings_step(table, doc_ids, selected_embedding_ids) ==
    IF doc_ids # <<>>
    THEN extract_embeddings(table, doc_ids, selected_embedding_ids)
    ELSE [rows |-> <<>>, queries |-> <<>>]

EmbInit ==
    /\ embIn \in EmbInputs
    /\ embOut = NONE
    /\ GenIdle
    /\ ExecIdle
    /\ ExtIdle
    /\ RunIdle
    /\ LoadIdle
    /\ ValIdle
    /\ AuditIdle
    /\ RiskIdle
    /\ FindIdle

ExtractEmbeddingRows ==
    /\ embOut = NONE
    /\ embOut' = embeddings_step(embIn.table, embIn.doc_ids, embIn.selected_embedding_ids)
    /\ UNCHANGED <<embIn, genVars, execVars, extVars, runVars, loadVars, valVars, auditVars, riskVars, findVars>>

SpecEmb == EmbInit /\ [][ExtractEmbeddingRows]_vars

\* ------------------------------------------------- loader.py, validation.py: _find_latest_file
\* A file name is the sequence of its pieces; the pieces begin with different
\* characters, so that comparing names piece by piece is comparing the strings.
\* f"{name}_{self.timestamp}.csv": the timestamp begins with a digit.
CsvName(name, timestamp) ==
    (IF name = "users_groups" THEN <<"users", "_", "groups">> ELSE <<name>>)
    \o <<"_", timestamp, ".csv">>

\* The files with the prefix that end in .csv, sorted in reverse: the first.
find_latest_file(listdir, prefix) ==
    LET ord(piece) == CASE piece = ".csv" -> 46 [] piece = "1" -> 49 [] piece = "2" -> 50
                        [] piece = "_" -> 95 [] piece = "folders" -> 102
                        [] piece = "groups" -> 103 [] piece = "users" -> 117
        startswith(f, x) == Len(x) <= Len(f) /\ SubSeq(f, 1, Len(x)) = x
        endswith(f, x) == Len(f) > 0 /\ f[Len(f)] = x
        \* f <= g as strings
        le(f, g) ==
            \/ startswith(g, f)
            \/ \E i \in 1..Len(f) :
                   /\ i <= Len(g)
                   /\ SubSeq(f, 1, i - 1) = SubSeq(g, 1, i - 1)
                   /\ ord(f[i]) < ord(g[i])
        files == {f \in listdir : startswith(f, prefix) /\ endswith(f, ".csv")}
    IN  IF files = {} THEN None
        ELSE [path |-> CHOOSE f \in files : \A g \in files : le(g, f)]

\* The lookups: load_table and validate_row_counts look a table's file up with
\* the prefix f"{table}_", validate_required_columns_users with "users_".
FindInputs ==
    LET names == {CsvName(n, t) : n \in {"users", "users_groups", "folders"}, t \in {"1", "2"}}
    IN  [listdir : SUBSET names,
         caller : {"load_table", "validate_row_counts"},
         table : {"users", "users_groups", "folders"}]
        \cup [listdir : SUBSET names, caller : {"validate_required_columns_users"},
              table : {"users"}]

FindInit ==
    /\ findIn \in FindInputs
    /\ findOut = NONE
    /\ GenIdle
    /\ ExecIdle
    /\ ExtIdle
    /\ RunIdle
    /\ LoadIdle
    /\ ValIdle
    /\ AuditIdle
    /\ RiskIdle
    /\ EmbIdle

FindLatestFile ==
    /\ findOut = NONE
    /\ findOut' = find_latest_file(findIn.listdir, SubSeq(CsvName(findIn.table, "1"), 1, Len(CsvName(findIn.table, "1")) - 2))
    /\ UNCHANGED <<findIn, genVars, execVars, extVars, runVars, loadVars, valVars, auditVars, riskVars, embVars>>

SpecFind == FindInit /\ [][FindLatestFile]_vars

\* ------------------------------------------------------------------ claims
HasEmail(row) == row.email \notin {NULL, "", " "}

SrcOf(stmts) == [i \in 1..Len(stmts) |-> stmts[i].src]

\* C5: generate_users_migration_sql writes no INSERT for a row whose email is
\* null, empty or whitespace-only, exactly one guarded INSERT for every other
\* row, and its skipped count is the number of rows without such an email.
C5_EmailExclusion ==
    (genInput.kind = "users" /\ genOutput # NONE) =>
        /\ SrcOf(genOutput.stmts) = SelectSeq(genInput.rows, HasEmail)
        /\ \A i \in 1..Len(genOutput.stmts) : genOutput.stmts[i].kind = "user"
        /\ genOutput.skipped =
               Cardinality({i \in 1..Len(genInput.rows) : ~HasEmail(genInput.rows[i])})
        /\ genOutput.processed + genOutput.skipped = Len(genInput.rows)

C5_Witness ==
    /\ genInput.kind = "users"
    /\ genOutput # NONE
    /\ Len(genInput.rows) = 2
    /\ genInput.rows[1].email = "a@x.com"
    /\ genInput.rows[2].email = " "
    /\ genOutput.skipped = 1
    /\ Len(genOutput.stmts) = 1

\* Folder sets whose parent_id relation is closed and acyclic, with one row
\* per id.
FolderOf(rows, id) == CHOOSE r \in Range(rows) : r.id = id

RECURSIVE ReachesRoot(_, _, _)
ReachesRoot(rows, id, fuel) ==
    LET r == FolderOf(rows, id)
    IN  \/ r.parent_id = NULL
        \/ fuel > 0 /\ ReachesRoot(rows, r.parent_id, fuel - 1)

ValidHierarchy(rows) ==
    /\ \A i, j \in 1..Len(rows) : rows[i].id = rows[j].id => i = j
    /\ \A r \in Range(rows) : r.parent_id # NULL => \E p \in Range(rows) : p.id = r.parent_id
    /\ \A r \in Range(rows) : ReachesRoot(rows, r.id, Len(rows))

\* C4: for an acyclic, closed folder set no folder's insert block is written
\* before the insert block of its parent.
C4_ParentBeforeChild ==
    (genInput.kind = "folders" /\ genOutput # NONE /\ ValidHierarchy(genInput.rows)) =>
        \A i, j \in 1..Len(genOutput.stmts) :
            genOutput.stmts[i].parent_id = genOutput.stmts[j].id => j < i

\* C7: a chunk row whose metadata.doc_id matches no extracted document gets
\* no chunk INSERT and no embedding INSERT, adds one to the skipped count, and
\* the call raises nothing.  Read for the frames in which every row carries a
\* doc_id.
Unmatched(row, documents) == row.metadata.doc_id \notin documents

C7_UnmatchedChunkSkipped ==
    (/\ genInput.kind = "chunks" /\ genOutput # NONE
     /\ \A r \in Range(genInput.rows) : r.metadata.doc_id # NULL) =>
        /\ ~genOutput.raised
        /\ \A i \in 1..Len(genOutput.stmts) :
               ~Unmatched(genOutput.stmts[i].src, genInput.documents)
        /\ genOutput.skipped >=
               Cardinality({i \in 1..Len(genInput.rows) :
                               Unmatched(genInput.rows[i], genInput.documents)})

\* The rows of every INSERT of one kind that a script holds, in script order.
RECURSIVE ValuesOf(_, _)
ValuesOf(stmts, kind) ==
    IF stmts = <<>> THEN <<>>
    ELSE (IF stmts[1].kind = kind THEN stmts[1].values ELSE <<>>) \o ValuesOf(Tail(stmts), kind)

MessagesOf(stmts, chat_id) ==
    SelectSeq(ValuesOf(stmts, "messages"), LAMBDA m : m.conversation_id = chat_id)

\* The messages m of one conversation are one list linked through
\* parent_message_id, user then assistant turn by turn.
LinkedList(m) ==
    \A i \in 1..Len(m) :
        /\ m[i].role = (IF i % 2 = 1 THEN "user" ELSE "assistant")
        /\ m[i].parent_message_id = (IF i = 1 THEN SqlNull ELSE SqlExpr(m[i - 1].id))

\* C6: N log rows sharing one chat_id give 1 conversation row, 2N message rows
\* and 2N content-block rows, and the conversation's messages are one linked
\* list: the first user message has no parent, an assistant message's parent
\* is the user message of its turn, a later user message's parent is the
\* assistant message of the turn before.  Read for the datasets in which every
\* row has its user_id and chat_id and a chat_id belongs to one user.
OwnedLogs(rows) ==
    /\ \A r \in Range(rows) : r.user_id # NULL /\ r.chat_id # NULL
    /\ \A r, q \in Range(rows) : r.chat_id = q.chat_id => r.user_id = q.user_id

C6_ConversationFanOut ==
    (genInput.kind = "logs" /\ genOutput # NONE /\ OwnedLogs(genInput.rows)) =>
        \A k \in {r.chat_id : r \in Range(genInput.rows)} \ {NULL} :
            LET N    == Cardinality({i \in 1..Len(genInput.rows) : genInput.rows[i].chat_id = k})
                msgs == MessagesOf(genOutput.stmts, k)
            IN  /\ Len(SelectSeq(ValuesOf(genOutput.stmts, "conversations"),
                                 LAMBDA c : c.id = k)) = 1
                /\ Len(msgs) = 2 * N
                /\ Len(SelectSeq(ValuesOf(genOutput.stmts, "blocks"),
                                 LAMBDA b : b.message_id \in {msgs[i].id : i \in 1..Len(msgs)}))
                       = 2 * N
                /\ LinkedList(msgs)

\* C1: for any extracted dataset, executing the five scripts twice in dependency
\* order against an empty target leaves every table with the row count the first
\* execution left it with: the second execution inserts nothing.
C1_TwiceAsOnce ==
    (inOrder /\ pass > Len(ScriptOrder)) =>
        /\ RowCounts(target) = RowCounts(onceTarget)
        /\ target = onceTarget

\* Both passes are over, the first inserted users and rows of another table, and
\* the users script held a row the guard suppressed already in the first pass.
C1_Witness ==
    /\ inOrder /\ pass = Len(TwoPasses)
    /\ Len(target.users) >= 1
    /\ Len(target.users) < Len(scripts.users)
    /\ Len(target.folders) + Len(target.chunks) + Len(target.conversations) >= 1

\* C3: in whatever order and however often the scripts are executed, no folder or
\* document is in the target without its owner being a target user, no chunk or
\* embedding without its document being a target document; and a script that
\* skips a row still inserts every later row whose lookup succeeds.
UserIdsOf(t) == {t.users[i].id : i \in 1..Len(t.users)}
DocumentIdsOf(t) == {t.documents[i].id : i \in 1..Len(t.documents)}

NoDanglingReference(t) ==
    /\ \A i \in 1..Len(t.folders) : t.folders[i].user_id \in UserIdsOf(t)
    /\ \A i \in 1..Len(t.documents) : t.documents[i].user_id \in UserIdsOf(t)
    /\ \A i \in 1..Len(t.chunks) : t.chunks[i].document_id \in DocumentIdsOf(t)
    /\ \A i \in 1..Len(t.embeddings) : t.embeddings[i].document_id \in DocumentIdsOf(t)

\* The statement's lookup finds its row in t.
Resolves(t, sql) ==
    CASE sql.kind \in {"folder", "document"} -> select_user_id(t, sql.owner_lookup) # NULLID
      [] sql.kind \in {"chunk", "embedding"} -> select_document_id(t, sql.doc_lookup) # NULLID
      [] OTHER -> TRUE

\* The row the statement is to insert is in t.
Present(t, sql) ==
    CASE sql.kind = "folder" -> (\E f \in Range(t.folders) : f.id = sql.id)
      [] sql.kind = "document" ->
            (\E d \in Range(t.documents) : d.legacy_doc_id = sql.legacy_doc_id)
      [] sql.kind = "chunk" -> (\E c \in Range(t.chunks) : c.id = sql.id)
      [] sql.kind = "embedding" ->
            (\E e \in Range(t.embeddings) : e.chunk_id = sql.chunk_id)
      [] OTHER -> TRUE

\* The script called name has just run to its end.
RanToEnd(name) ==
    \A i \in 1..Len(scripts[name]) :
        Resolves(target, scripts[name][i]) => Present(target', scripts[name][i])

Touched(name) ==
    CASE name = "folders" ->
            \/ target'.folders # target.folders
            \/ \E n \in target'.notices \ target.notices : n[1] = "folder"
      [] name = "documents" ->
            \/ target'.documents # target.documents
            \/ \E n \in target'.notices \ target.notices : n[1] = "document"
      [] name = "chunks_embeddings" ->
            \/ target'.chunks # target.chunks
            \/ target'.embeddings # target.embeddings
            \/ \E n \in target'.notices \ target.notices : n[1] = "chunk"

C3_SkipNotInsert ==
    [][/\ NoDanglingReference(target')
       /\ \A name \in {"folders", "documents", "chunks_embeddings"} :
             Touched(name) => RanToEnd(name)]_vars

\* A folder whose owner is no target user was skipped with its notice, and a
\* folder later in the same script is in the target.
SkippedThenInserted(name, kind) ==
    \E i \in 1..Len(scripts[name]) : \E j \in (i + 1)..Len(scripts[name]) :
        /\ scripts[name][i].kind = kind
        /\ scripts[name][j].kind = kind
        /\ ~Resolves(target, scripts[name][i])
        /\ <<kind, scripts[name][i].src.id>> \in target.notices
        /\ ~Present(target, scripts[name][i])
        /\ Present(target, scripts[name][j])

C3_Witness ==
    /\ dataset # NONE
    /\ SkippedThenInserted("folders", "folder")

\* C2: when the users query returns zero rows, run_full_extraction returns with
\* a non-empty error list, and no query for user groups, folders, documents,
\* embeddings, agents or logs is sent in that run.
UsersAnswered == extIn # NONE /\ extIn.failing \notin {"users_columns", "users"}

C2_NoUsersHalts ==
    (UsersAnswered /\ extIn.users = 0) =>
        /\ Range(extQueries) \subseteq {"users_columns", "users"}
        /\ extPc \in {"users", "done"}
        /\ extPc = "done" => extResults.errors # <<>>

C2_Witness ==
    /\ UsersAnswered /\ extIn.users = 0
    /\ extPc = "done"
    /\ extQueries = <<"users_columns", "users">>
    /\ extResults.errors = <<<<"No users found">>>>

\* C8: run_full_extraction sends its queries in the order user groups, users,
\* folders, documents, embeddings, agents, logs.
ClaimedOrder == EXTRACTION_ORDER \o <<"logs">>

OrderRank(q) ==
    LET table == IF q = "users_columns" THEN "users" ELSE q
    IN  CHOOSE i \in 1..Len(ClaimedOrder) : ClaimedOrder[i] = table

C8_DependencyOrder ==
    \A i \in 1..Len(extQueries) : \A j \in i..Len(extQueries) :
        OrderRank(extQueries[i]) <= OrderRank(extQueries[j])

\* C9: when a query of run_full_extraction raises, no later query is sent, the
\* error list carries the failure, and the file and summary entries of every
\* stage that was answered before are in the results.
StageOf(q) == IF q = "custom_documents" THEN "documents" ELSE q

Answered ==
    {StageOf(extQueries[i]) : i \in {k \in 1..Len(extQueries) :
        extQueries[k] # extIn.failing /\ extQueries[k] # "users_columns"}}

Raised == extIn # NONE /\ \E i \in 1..Len(extQueries) : extQueries[i] = extIn.failing

C9_FailureAborts ==
    Raised =>
        /\ extQueries[Len(extQueries)] = extIn.failing
        /\ extPc = "done"
        /\ <<"Extraction failed", extIn.failing>> \in Range(extResults.errors)
        /\ \A stage \in Answered :
              /\ stage \in extResults.files
              /\ \E e \in extResults.summary : e[1] = stage

C9_Witness ==
    /\ Raised
    /\ extIn.failing = "embeddings"
    /\ {"users", "users_groups", "folders", "documents"} \subseteq extResults.files
    /\ <<"documents", MaxSrcRows>> \in extResults.summary

\* C10: after every run of the full migration, halted or resumed, the report
\* generation returns a report without raising, and the report carries the
\* summaries and errors of the stages that ran.
C10_ReportAlways ==
    runPc = "reported" =>
        /\ ~report.raised
        /\ runResults.extraction # None =>
              report.extraction.errors = Get(runResults.extraction, "errors", <<>>)
        /\ runResults.transformation # None =>
              report.transformation.errors = Get(runResults.transformation, "errors", <<>>)

\* C11: a run resumed from stage S executes exactly the stages from S on, in the
\* order extract, transform, validate, load, and every stage before S has the
\* result of the earlier run as its result in the returned results.  Read for
\* the runs that no stage halts, with a target and no dry run, resumed in a
\* session that holds the earlier run's data.
StageOrder == <<"extract", "transform", "validate", "load">>

ResumeStage ==
    CASE runOptions.resume_from \in {"Start Fresh", "Extract"} -> 1
      [] runOptions.resume_from = "Transform" -> 2
      [] runOptions.resume_from = "Validate" -> 3
      [] runOptions.resume_from = "Load" -> 4

Returned == runPc \in {"report", "reported"}

RanThrough ==
    /\ Returned
    /\ runOptions.target_config /\ ~runOptions.dry_run
    /\ session.extracted_data # EmptyDict /\ session.transformed_data # EmptyDict
    /\ Get(runResults.extraction, "errors", <<>>) = <<>>
    /\ Get(runResults.transformation, "errors", <<>>) = <<>>
    /\ \/ runResults.validation = None
       \/ ~(runResults.validation.overall_status = "fail"
            /\ runOptions.stop_on_validation_fail)

C11_ResumeSkipsDone ==
    RanThrough =>
        /\ runStages = SubSeq(StageOrder, ResumeStage, Len(StageOrder))
        /\ ResumeStage > 1 => runResults.extraction = session.extracted_data
        /\ ResumeStage > 2 => runResults.transformation = session.transformed_data
        /\ ResumeStage > 3 => runResults.validation # None

IsBegin(event) == event[1] = "begin"

\* The tables load_all has called load_table for, in the order of the calls.
Attempted == LET begins == SelectSeq(loadLog, IsBegin) IN [k \in 1..Len(begins) |-> begins[k][2]]

LoadReturned == loadIn # NONE /\ loadPhase = "returned"

\* C12: in load_all with strict_mode true and dry_run false, the first table
\* whose load ends with status error is the last table attempted; with
\* strict_mode false every table of LOAD_ORDER is attempted exactly once
\* whatever the earlier tables' outcomes; no table is ever attempted twice.
C12_StrictModeHalts ==
    loadIn # NONE =>
        LET attempted == Attempted IN
        /\ \A j, k \in 1..Len(attempted) : attempted[j] = attempted[k] => j = k
        /\ (loadIn.strict_mode /\ ~loadIn.dry_run) =>
             \A k \in 1..Len(loadResults.tables) :
                loadResults.tables[k].status = "error" =>
                    /\ k = Len(loadResults.tables)
                    /\ loadPhase = "returned"
                    /\ \A j \in (k + 1)..Len(LOAD_ORDER) : LOAD_ORDER[j] \notin Range(attempted)
        /\ (~loadIn.strict_mode /\ loadPhase = "returned") =>
             \A i \in 1..Len(LOAD_ORDER) : LOAD_ORDER[i] \in Range(attempted)

\* A strict load that stopped at the folders table after a partial users load.
C12_Witness ==
    /\ LoadReturned
    /\ loadIn.strict_mode /\ ~loadIn.dry_run
    /\ Len(loadResults.tables) = 3
    /\ loadResults.tables[2].status = "partial"
    /\ loadResults.tables[3].status = "error"
    /\ "documents" \notin Range(Attempted)

\* The tables load_table has been called for and has not returned from.
BeingLoaded ==
    {t \in Range(LOAD_ORDER) :
        /\ \E p \in 1..Len(loadLog) : loadLog[p] = <<"begin", t>>
        /\ \A p \in 1..Len(loadLog) : loadLog[p] # <<"return", t>>}

CommittedAndReturnedBefore(table, p) ==
    /\ \E q \in 1..(p - 1) : loadLog[q] = <<"commit", table>>
    /\ \E q \in 1..(p - 1) : loadLog[q] = <<"return", table>>

\* C13: load_all attempts the tables in the order of LOAD_ORDER, an insert of
\* a table is issued only after the load of the table before it in LOAD_ORDER
\* has committed its inserts and returned, and at no time are two tables
\* being loaded.
C13_OneTableAtATime ==
    loadIn # NONE =>
        /\ Attempted = SubSeq(LOAD_ORDER, 1, Len(Attempted))
        /\ \A p \in 1..Len(loadLog), i \in 2..Len(LOAD_ORDER) :
             loadLog[p] = <<"insert", LOAD_ORDER[i]>> =>
                CommittedAndReturnedBefore(LOAD_ORDER[i - 1], p)
        /\ Cardinality(BeingLoaded) <= 1

ValidationReturned == valReturn # NONE /\ ~valReturn.raised

\* C14: the dictionary run_all_validations returns has overall_status fail
\* exactly when some check result has status fail, whatever the number of
\* warning and skipped results, and its summary counts pass, fail, warning
\* and skipped results each on their own, adding up to the total.
C14_OverallStatus ==
    ValidationReturned =>
        /\ valReturn.overall_status = "fail" <=>
             (\E i \in 1..Len(valReturn.results) : valReturn.results[i].status = "fail")
        /\ valReturn.overall_status \in {"pass", "fail"}
        /\ valReturn.summary.passed = count_status(valReturn.results, "pass")
        /\ valReturn.summary.warnings = count_status(valReturn.results, "warning")
        /\ valReturn.summary.skipped = count_status(valReturn.results, "skipped")
        /\ valReturn.summary.total = valReturn.summary.passed + valReturn.summary.failed
                                       + valReturn.summary.warnings + valReturn.summary.skipped

\* A run with warning and skipped results and no failed one.
C14_Witness ==
    /\ ValidationReturned
    /\ valReturn.summary.warnings = 2
    /\ valReturn.summary.skipped >= 1
    /\ valReturn.summary.failed = 0
    /\ valReturn.overall_status = "pass"

AuditReturned == auditAt[1] = Len(AuditSections) + 1

Called(section, check) == \E p \in 1..Len(auditCalls) : auditCalls[p].section = section /\ auditCalls[p].check = check

RaisedIn(section, check) == \E p \in 1..Len(auditCalls) : auditCalls[p] = [section |-> section, check |-> check, raised |-> TRUE]

\* C15: in run_full_audit a check that raises leaves an error entry in its own
\* section and in no other; when the audit has returned, every check of a
\* section in which no earlier check raised has been called, and the result
\* of every called check that did not raise is in the results.
C15_SectionIsolation ==
    auditAt # <<0, 0>> =>
        /\ \A s \in 1..Len(AuditSections) :
             ("error" \in auditResults[s]) <=>
                (\E c \in 1..Len(AuditSections[s].checks) : RaisedIn(s, c))
        /\ AuditReturned =>
             \A s \in 1..Len(AuditSections) : \A c \in 1..Len(AuditSections[s].checks) :
                /\ Called(s, c) <=> (\A b \in 1..(c - 1) : ~RaisedIn(s, b))
                /\ (Called(s, c) /\ ~RaisedIn(s, c)) => AuditSections[s].checks[c] \in auditResults[s]

\* An audit that returned after a check of the folders section had raised.
C15_Witness ==
    /\ AuditReturned
    /\ RaisedIn(2, 2)
    /\ "error" \in auditResults[2]
    /\ "error" \notin auditResults[3]
    /\ Called(6, 2)

\* The documents of the source that the pipeline left out of the target and
\* whose owner is not a user of the target.
LostForOwner(source, t) ==
    {i \in 1..Len(source.documents) :
        /\ select_document_id(t, source.documents[i].doc_id) = NULLID
        /\ select_user_id(t, source.documents[i].owner_id) = NULLID}

\* C16: the number the audit reports as 'documents without valid user' is the
\* number of source documents the pipeline does not insert into the target
\* because their owner is not a migrated user.
C16_AuditMatchesPipeline ==
    (riskAudit # NONE /\ riskTarget # NONE) =>
        riskAudit.rows_at_risk = Cardinality(LostForOwner(riskSource, riskTarget))

\* C17: every row the embeddings step returns has its metadata doc_id among
\* the doc_ids of the extracted documents, whatever the embedding selection;
\* with no extracted document the result is empty and no query is issued,
\* and no query is issued without a filter.
C17_EmbeddingsOfExtractedDocuments ==
    embOut # NONE =>
        /\ \A r \in Range(embOut.rows) : r.doc_id \in Range(embIn.doc_ids)
        /\ embIn.doc_ids = <<>> => (embOut.rows = <<>> /\ embOut.queries = <<>>)
        /\ \A q \in Range(embOut.queries) : q \in {"id", "doc_id"}

Emits(stmts, kind, row) == \E s \in Range(stmts) : s.kind = kind /\ s.src = row

Resolvable(row) == row.id # NULL /\ row.metadata.type = "chunk-data" /\ row.metadata.doc_id # NULL

\* C18: generate_chunks_embeddings_migration_sql emits a chunk insert for
\* every chunk-data row that has an id and a doc_id, with or without a vector
\* and whatever skip_empty_embeddings is; it emits the row's embedding insert
\* exactly when the row has a vector; for a row without doc_id it emits neither.
C18_ChunkWithoutVector ==
    (genInput.kind = "chunks" /\ genOutput # NONE /\ ~genOutput.raised) =>
        \A row \in Range(genInput.rows) :
            /\ Resolvable(row) =>
                 /\ Emits(genOutput.stmts, "chunk", row)
                 /\ Emits(genOutput.stmts, "embedding", row) <=> row.embeddings # NULL
            /\ row.metadata.doc_id = NULL =>
                 /\ ~Emits(genOutput.stmts, "chunk", row)
                 /\ ~Emits(genOutput.stmts, "embedding", row)

\* C19: every generator accounts for every row it was given: for users,
\* folders and documents processed + skipped is the number of input rows, for
\* chunks chunks_processed + skipped is, and for the logs, whose statistics
\* have no skipped count and count two messages for a row, messages_processed
\* is twice the number of input rows.  A call that raises reports no count.
C19_EveryRowCounted ==
    genOutput # NONE =>
        /\ ~genOutput.raised
        /\ genInput.kind \in {"users", "folders", "documents"} =>
             genOutput.processed + genOutput.skipped = Len(genInput.rows)
        /\ genInput.kind = "chunks" =>
             genOutput.chunks_processed + genOutput.skipped = Len(genInput.rows)
        /\ genInput.kind = "logs" =>
             genOutput.messages_processed = 2 * Len(genInput.rows)

\* The pieces of text after the first occurrence of marker.
AfterFirst(text, marker) ==
    LET at == CHOOSE i \in 1..Len(text) : text[i] = marker /\ \A j \in 1..(i - 1) : text[j] # marker
    IN  SubSeq(text, at + 1, Len(text))

BeforeFirst(text, marker) == SubSeq(text, 1, Len(text) - Len(AfterFirst(text, marker)) - 1)

Has(text, marker) == \E i \in 1..Len(text) : text[i] = marker

\* C20: extract_content_from_document gives as original content all that
\* follows the marker original_content: (the whole field when the field has
\* no such marker) and as translated content what stands between the marker
\* translated_content: and the marker original_content: after it, or None when
\* one of the markers is missing; surrounding blanks apart.
C20_ContentMarkers ==
    (genInput.kind = "content" /\ genOutput # NONE) =>
        LET text == genInput.text
            has_original == Has(text, "original_content:")
            has_translated == Has(text, "translated_content:")
        IN  /\ has_original =>
                 genOutput.original = strip(AfterFirst(text, "original_content:"))
            /\ ~has_original => genOutput.original = text
            /\ (has_translated /\ Has(AfterFirst(text, "translated_content:"), "original_content:")) =>
                 genOutput.translated =
                    <<strip(BeforeFirst(AfterFirst(text, "translated_content:"), "original_content:"))>>
            /\ ~(has_translated /\ has_original) => genOutput.translated = <<>>

\* The value at index 1 of the question array, NULL when there is none.
ValueAtIndex1(question) ==
    IF "items" \in DOMAIN question /\ Len(question.items) > 1 /\ "value" \in DOMAIN question.items[2]
    THEN question.items[2].value
    ELSE NULL

\* C21: the user message text of a log row is the value at index 1 of its
\* question array when that value is not empty, and otherwise, when
\* question_in_english is not empty, it is question_in_english.
C21_QuestionFallback ==
    (genInput.kind = "question" /\ genOutput # NONE) =>
        /\ ~genOutput.raised
        /\ ValueAtIndex1(genInput.question) \notin {NULL, ""} =>
             genOutput.text = ValueAtIndex1(genInput.question)
        /\ (ValueAtIndex1(genInput.question) \in {NULL, ""}
              /\ clean_string(genInput.question_in_english) # NULL) =>
             genOutput.text = clean_string(genInput.question_in_english)


\* The user messages of the emitted statements, in the order they are emitted
\* in, and the logs row a message was made from.
EmittedUserMessages ==
    LET Flat[i \in 0..Len(genOutput.stmts)] ==
            IF i = 0 THEN <<>>
            ELSE Flat[i - 1] \o (IF genOutput.stmts[i].kind = "messages"
                                 THEN SelectSeq(genOutput.stmts[i].values, LAMBDA m : m.role = "user")
                                 ELSE <<>>)
    IN  Flat[Len(genOutput.stmts)]
LogOf(message) == CHOOSE r \in Range(genInput.rows) : user_msg_id(r.id) = message.id

\* C22: within each conversation the log rows are emitted in ascending order
\* of question_number: of two turns of one conversation of one user, the one
\* emitted first has no greater question_number; message_index decides only
\* between rows of equal question_number.
C22_TurnOrder ==
    (genInput.kind = "logs" /\ genOutput # NONE) =>
        LET msgs == EmittedUserMessages
        IN  \A p \in 1..Len(msgs) : \A q \in 1..Len(msgs) :
                (p < q /\ msgs[p].conversation_id = msgs[q].conversation_id
                       /\ msgs[p].user_lookup = msgs[q].user_lookup) =>
                    /\ LogOf(msgs[p]).question_number[1] <= LogOf(msgs[q]).question_number[1]
                    /\ (LogOf(msgs[p]).question_number = LogOf(msgs[q]).question_number) =>
                           NumRank(LogOf(msgs[p]).message_index) <= NumRank(LogOf(msgs[q]).message_index)


\* C23: when at least one user resolves and no source query fails, the run
\* that has returned completed all seven stages: its error list is empty and
\* its summary holds an entry for each of users, users_groups, folders,
\* documents, embeddings, agents and logs.
C23_SevenStages ==
    (extPc = "done" /\ extIn.users > 0 /\ extIn.failing = "none") =>
        /\ extResults.errors = <<>>
        /\ \A name \in {"users", "users_groups", "folders", "documents", "embeddings", "agents", "logs"} :
               \E e \in extResults.summary : e[1] = name


EntityOf(file) == IF file[2] = "_" /\ file[3] = "groups" THEN "users_groups" ELSE file[1]

\* C24: when a directory holds both a users file and a users_groups file, the
\* lookup of the latest file of the table users, by each of its three callers,
\* returns a users file and never a users_groups file.
C24_UsersFileLookup ==
    (/\ findOut # NONE
     /\ findIn.table = "users"
     /\ \E f \in findIn.listdir : EntityOf(f) = "users"
     /\ \E f \in findIn.listdir : EntityOf(f) = "users_groups") =>
        /\ findOut # None
        /\ EntityOf(findOut.path) = "users"


\* C25: every user the pipeline extracts, and so every user it migrates, has
\* an email of the given user_emails list; with an empty list no user and no
\* document is extracted or migrated.
C25_OnlyListedUsers ==
    riskTarget # NONE =>
        /\ \A i \in 1..Len(riskTarget.users) :
               \E u \in Range(riskSource.users) :
                   /\ u.id = riskTarget.users[i].legacy_id
                   /\ u.email \in Range(riskSource.user_emails)
        /\ riskSource.user_emails = <<>> =>
               (riskTarget.users = <<>> /\ riskTarget.documents = <<>>)


\* C26: executing the conversations script never leaves a
\* message_content_blocks row whose message_id is not an inserted message, nor
\* a message whose conversation_id is not an inserted conversation: a turn of a
\* legacy user that the target does not hold inserts nothing.
C26_NoOrphanTurn ==
    /\ \A b \in Range(target.blocks) : \E m \in Range(target.messages) : m.id = b.message_id
    /\ \A m \in Range(target.messages) :
           \E c \in Range(target.conversations) : c.id = m.conversation_id


\* C27: every folder of the target with a non-null parent_id was inserted
\* after the folder its parent_id names, also when the parent of an extracted
\* folder is not among the extracted folders.
C27_ParentExistsAtInsert ==
    \A i \in 1..Len(target.folders) :
        target.folders[i].parent_id # NULLID =>
            \E j \in 1..(i - 1) : target.folders[j].id = target.folders[i].parent_id


Ran(stage) == \E i \in 1..Len(runStages) : runStages[i] = stage

\* C28: the load never executes in a run whose extraction or transformation
\* returned errors, nor in one whose validation returned fail while
\* stop_on_validation_fail is set, nor in a dry run or without a target.  A
\* stage returns in the runs that execute it; a resumed run takes the data of
\* the stages before its first from the session.
C28_NoLoadAfterFailedStage ==
    Ran("load") =>
        /\ Ran("extract") => runResults.extraction.errors = <<>>
        /\ Ran("transform") => runResults.transformation.errors = <<>>
        /\ Ran("validate") =>
               ~(runResults.validation.overall_status = "fail" /\ runOptions.stop_on_validation_fail)
        /\ runOptions.target_config /\ ~runOptions.dry_run

C28_Witness ==
    /\ Ran("load") /\ Ran("transform") /\ Ran("validate")
    /\ runResults.validation.overall_status = "fail"


ChunkInserts == SelectSeq(genOutput.stmts, LAMBDA sql : sql.kind = "chunk")

\* C30: the chunk inserts of one document carry the chunk_index values
\* 0..k-1 without gaps, in ascending order of the legacy id: an insert's
\* chunk_index is the number of inserts of its document written before it,
\* also when rows of the document are skipped.
C30_ChunkIndexDense ==
    (genInput.kind = "chunks" /\ genOutput # NONE) =>
        \A i \in 1..Len(ChunkInserts) :
            /\ ChunkInserts[i].chunk_index =
                   Cardinality({j \in 1..(i - 1) :
                       ChunkInserts[j].doc_lookup = ChunkInserts[i].doc_lookup})
            /\ \A j \in 1..(i - 1) :
                   ChunkInserts[j].doc_lookup = ChunkInserts[i].doc_lookup =>
                       StrRank(ChunkInserts[j].src.id) <= StrRank(ChunkInserts[i].src.id)

====
